---- MODULE Spec2Model ----
(***************************************************************************)
(* A model of the course-management backend: the enrollment, submission,   *)
(* grading and assignment services (serverless request handlers over a     *)
(* relational store) and the two pages that write submissions directly     *)
(* (SubmissionPage, LecturerSubmissionsPage).                              *)
(*                                                                         *)
(* Every data-store call of a handler is one atomic step; a handler that   *)
(* makes several calls is several steps, so that requests interleave       *)
(* between their calls.  The store enforces no uniqueness constraint: no   *)
(* schema in the sources declares one.                                     *)
(***************************************************************************)
EXTENDS Integers, Sequences, FiniteSets, TLC

----------------------------------------------------------------------------
(* Bounds of the model.                                                    *)

\* Number of request slots: how many service requests one behaviour holds.
MaxReq == 3

\* The clock value up to which the lecturer's page still grades.
MaxClock == 2

\* Request slots where two pairs of requests are to overlap.
MaxRaceReq == 4

\* The request slots a behaviour may fill.
Req == 1..MaxReq

\* The request slots a behaviour of overlapping pairs may fill.
RaceReq == 1..MaxRaceReq

\* Every request slot there is.
Slots == Req \cup RaceReq

\* Number of SubmissionPage sessions one behaviour holds.
MaxPages == 2

Page == 1..MaxPages

Students == {"s1", "s2"}

Courses == {"c1"}

\* 'active' and one status that is not.
Statuses == {"active", "dropped"}

Lecturers == {"l1", "l2"}

\* What a student writes into a submission.
Contents == {"x", "y"}

----------------------------------------------------------------------------
(* Optional values: null is the empty sequence, a value v is <<v>>.        *)

Null == <<>>

Some(v) == <<v>>

----------------------------------------------------------------------------
(* The data layer (PostgREST through supabase-js).                         *)

\* .single(): the row when the query matches exactly one row; otherwise data
\* is null and the error PGRST116 is returned, for no row and for several
\* rows alike (its details give the number of rows).
Single(rows) ==
    IF Cardinality(rows) = 1
    THEN [data |-> Some(CHOOSE x \in rows : TRUE), error |-> Null]
    ELSE [data |-> Null,
          error |-> Some([code |-> "PGRST116", rows |-> Cardinality(rows)])]

\* .maybeSingle(): as .single(), but no row is not an error.
MaybeSingle(rows) ==
    IF Cardinality(rows) = 0
    THEN [data |-> Null, error |-> Null]
    ELSE Single(rows)

\* An insert that skips a row whose student and course, or student and
\* assignment, are those of a row of the table: what a uniqueness constraint
\* with conflict handling would make of .insert().
InsertRowUnlessPresent(table, row) ==
    LET key == DOMAIN row \cap {"student_id", "course_id", "assignment_id"}
    IN  IF \E x \in table : \A f \in key : x[f] = row[f]
        THEN table
        ELSE table \cup {row}

\* .insert(row): the table with the row added.
InsertRow(table, row) == table \cup {row}

\* .update(updates): the row with the fields of updates overwritten.
ApplyUpdates(row, updates) ==
    [f \in DOMAIN row |-> IF f \in DOMAIN updates THEN updates[f] ELSE row[f]]

----------------------------------------------------------------------------
VARIABLES
    enrollments,   \* table enrollments: rows [id, student_id, course_id, status]
    submissions,   \* table submissions: rows [id, assignment_id, student_id,
                   \*   content, grade, feedback, graded_by, graded_at]
    assignments,   \* table assignments: rows [id, course_id, max_grade]
    courses,       \* table courses: rows [id, created_by]
    nextId,        \* the next server-assigned row identifier
    now,           \* the clock that new Date() reads
    req,           \* the requests: what each was asked, where it is, its response
    spage,         \* the open SubmissionPage sessions
    lpage,         \* the LecturerSubmissionsPage session
    user_roles,    \* table user_roles: rows [id, user_id, role]
    roleInsert,    \* the insert into user_roles asked for last, and what became of it
    dash,          \* the Dashboard session
    ppage,         \* the StudentProgressPage session
    safe           \* the call of safeGetSession or safeGetUser made last

vars ==
    <<enrollments, submissions, assignments, courses, nextId, now, req, spage,
      lpage, user_roles, roleInsert, dash, ppage, safe>>

\* The pages that only read, and the auth helpers.
readSide == <<ppage, safe>>

\* What no service and neither submission page touches.
roleSide == <<user_roles, roleInsert, dash, readSide>>

\* What the enrollment-service leaves alone.
submissionSide ==
    <<submissions, assignments, courses, now, spage, lpage, roleSide>>

\* A SubmissionPage that is not open.
Closed ==
    [pc |-> "closed", user |-> "", assignmentId |-> "", submission |-> Null,
     content |-> ""]

\* A LecturerSubmissionsPage that is not open.
LClosed ==
    [pc |-> "closed", assignment |-> Null, submissions |-> {},
     gradingSubmission |-> Null, grade |-> <<>>, feedback |-> "",
     submitting |-> FALSE, pending |-> Null, toast |-> ""]

\* A request that has not arrived.
Idle ==
    [action |-> "none", data |-> Null, pc |-> "idle", existing |-> Null,
     row |-> Null, sent |-> <<>>, status |-> 0, error |-> "",
     lost |-> <<>>, queue |-> <<>>, read |-> <<>>]

\* Request slots are taken in order.
Fresh(r) ==
    /\ req[r].pc = "idle"
    /\ IF r = 1 THEN TRUE ELSE req[r - 1].pc # "idle"

\* The Response a handler returns.
Respond(q, status, error) ==
    [q EXCEPT !.pc = "done", !.status = status, !.error = error]

\* supabase.functions.invoke('send-notification', {body}): the call is made;
\* it does not throw, and a call that failed gives its error in the result.
\* sent keeps the calls made, lost those of them that failed.
Invoke(q, body, ok) ==
    [q EXCEPT !.sent = Append(@, body),
              !.lost = IF ok THEN @ ELSE Append(@, body)]

\* A handler that looked at what its invocations gave and threw on an error.
NotifyResponseChecked(q) ==
    IF q.lost = <<>> THEN Respond(q, 200, "")
    ELSE Respond(q, 500, "Edge Function returned a non-2xx status code")

\* The Response after the notifications: the result of invoke is not read.
NotifyResponse(q) == Respond(q, 200, "")

SamePair(x, y) == x.student_id = y.student_id /\ x.course_id = y.course_id

\* .eq('student_id', ...).eq('course_id', ...)
PairRows(table, d) == {e \in table : SamePair(e, d)}

----------------------------------------------------------------------------
(* enrollment-service                                                      *)

\* The existence query of enrollStudent.
EnrollExistingActiveOnly(table, d) ==
    Single({e \in PairRows(table, d) : e.status = "active"})

EnrollExisting(table, d) == Single(PairRows(table, d))

\* 'enroll' arrives; "Check if already enrolled".
EnrollCheck(r, students) ==
    \E s \in students, c \in Courses :
        LET d == [student_id |-> s, course_id |-> c]
            existing == EnrollExisting(enrollments, d)
            q == [Idle EXCEPT !.action = "enroll", !.data = d,
                              !.existing = existing]
        IN  /\ Fresh(r)
            /\ req' = [req EXCEPT ![r] =
                        IF existing.data # Null
                        THEN Respond(q, 400, "Student already enrolled in this course")
                        ELSE [q EXCEPT !.pc = "insert"]]
            /\ UNCHANGED <<roleSide, enrollments, nextId, submissionSide>>

\* The insert of enrollStudent.
EnrollInsert(r) ==
    LET d == req[r].data
        new == [id |-> nextId, student_id |-> d.student_id,
                course_id |-> d.course_id, status |-> "active"]
    IN  /\ req[r].action = "enroll"
        /\ req[r].pc = "insert"
        /\ enrollments' = InsertRow(enrollments, new)
        /\ nextId' = nextId + 1
        /\ req' = [req EXCEPT ![r] =
                    IF new \in enrollments'
                    THEN [@ EXCEPT !.pc = "notify", !.row = Some(new)]
                    ELSE Respond(@, 500, "duplicate key value")]
        /\ UNCHANGED submissionSide

\* The course title is read and send-notification is invoked; the handler
\* returns 200 whatever the invocation gives.
EnrollNotify(r, outcomes) ==
    \E ok \in outcomes :
        /\ req[r].action = "enroll"
        /\ req[r].pc = "notify"
        /\ req' = [req EXCEPT ![r] =
                    NotifyResponse(
                        Invoke(@, [user_id |-> req[r].data.student_id,
                                   type |-> "enrollment",
                                   title |-> "Enrollment Successful"], ok))]
        /\ UNCHANGED <<roleSide, enrollments, nextId, submissionSide>>

\* 'unenroll': one delete of every row of the pair.
UnenrollStudent(r) ==
    \E s \in Students, c \in Courses :
        LET d == [student_id |-> s, course_id |-> c]
        IN  /\ Fresh(r)
            /\ enrollments' = enrollments \ PairRows(enrollments, d)
            /\ req' = [req EXCEPT ![r] =
                        Respond([Idle EXCEPT !.action = "unenroll", !.data = d], 200, "")]
            /\ UNCHANGED <<nextId, submissionSide>>

\* 'update-status': one update by id, read back with .single().
UpdateEnrollmentStatus(r) ==
    \E id \in 1..nextId, st \in Statuses :
        LET d == [id |-> id, status |-> st]
            hit == {e \in enrollments : e.id = id}
            upd == {ApplyUpdates(e, [status |-> st]) : e \in hit}
            res == Single(upd)
            q == [Idle EXCEPT !.action = "update-status", !.data = d]
        IN  /\ Fresh(r)
            /\ enrollments' = (enrollments \ hit) \cup upd
            /\ req' = [req EXCEPT ![r] =
                        IF res.error # Null
                        THEN Respond(q, 500, res.error[1].code)
                        ELSE Respond([q EXCEPT !.row = res.data], 200, "")]
            /\ UNCHANGED <<nextId, submissionSide>>

----------------------------------------------------------------------------
(* submission-service                                                      *)

SameWork(x, y) ==
    x.student_id = y.student_id /\ x.assignment_id = y.assignment_id

\* .eq('student_id', ...).eq('assignment_id', ...)
WorkRows(table, d) == {x \in table : SameWork(x, d)}

\* The existence query of createSubmission.
CreateExisting(table, d) == Single(WorkRows(table, d))

\* The row an insert into submissions makes: neither graded nor commented.
NewSubmission(id, a, s, content) ==
    [id |-> id, assignment_id |-> a, student_id |-> s, content |-> content,
     grade |-> Null, feedback |-> Null, graded_by |-> Null, graded_at |-> Null]

\* 'create' arrives; "Check if already submitted".
CreateCheck(r, students, contents) ==
    \E s \in students, a \in {x.id : x \in assignments}, c \in contents :
        LET d == [student_id |-> s, assignment_id |-> a, content |-> c]
            existing == CreateExisting(submissions, d)
            q == [Idle EXCEPT !.action = "create", !.data = d,
                              !.existing = existing]
        IN  /\ Fresh(r)
            /\ req' = [req EXCEPT ![r] =
                        IF existing.data # Null
                        THEN Respond(q, 400, "Assignment already submitted")
                        ELSE [q EXCEPT !.pc = "insert"]]
            /\ UNCHANGED <<roleSide, enrollments, submissions, assignments, courses,
                           nextId, now, spage, lpage>>

\* The insert of createSubmission.
CreateInsert(r) ==
    LET d == req[r].data
        new == NewSubmission(nextId, d.assignment_id, d.student_id, d.content)
    IN  /\ req[r].action = "create"
        /\ req[r].pc = "insert"
        /\ submissions' = InsertRow(submissions, new)
        /\ nextId' = nextId + 1
        /\ req' = [req EXCEPT ![r] =
                    IF new \in submissions'
                    THEN [@ EXCEPT !.pc = "notify", !.row = Some(new)]
                    ELSE Respond(@, 500, "duplicate key value")]
        /\ UNCHANGED <<roleSide, enrollments, assignments, courses, now, spage, lpage>>

\* The assignment is read with its course, and the course's creator, when
\* there is one, is notified; the handler returns 200 either way.
CreateNotify(r, outcomes) ==
    \E ok \in outcomes :
    LET d == req[r].data
        assignment == Single({a \in assignments : a.id = d.assignment_id})
        course == IF assignment.data = Null THEN {}
                  ELSE {c \in courses : c.id = assignment.data[1].course_id}
        note == {[user_id |-> c.created_by, type |-> "submission",
                  title |-> "New Submission"] : c \in course}
    IN  /\ req[r].action = "create"
        /\ req[r].pc = "notify"
        /\ req' = [req EXCEPT ![r] =
                    NotifyResponse(
                        IF note = {} THEN @
                        ELSE Invoke(@, CHOOSE n \in note : TRUE, ok))]
        /\ UNCHANGED <<roleSide, enrollments, submissions, assignments, courses,
                       nextId, now, spage, lpage>>

\* What a student may send as the updates of 'update'.
UpdatePayloads == {[content |-> c] : c \in Contents}

\* 'update': one update by id of whatever fields the request carries, read
\* back with .single().
UpdateSubmissionWith(r, payloads) ==
    \E id \in 1..nextId, updates \in payloads :
        LET d == [id |-> id, updates |-> updates]
            hit == {x \in submissions : x.id = id}
            upd == {ApplyUpdates(x, updates) : x \in hit}
            res == Single(upd)
            q == [Idle EXCEPT !.action = "update", !.data = d]
        IN  /\ Fresh(r)
            /\ submissions' = (submissions \ hit) \cup upd
            /\ req' = [req EXCEPT ![r] =
                        IF res.error # Null
                        THEN Respond(q, 500, res.error[1].code)
                        ELSE Respond([q EXCEPT !.row = res.data], 200, "")]
            /\ UNCHANGED <<roleSide, enrollments, assignments, courses, nextId, now, spage, lpage>>

\* 'update' as the student's page would send it.
UpdateSubmission(r) == UpdateSubmissionWith(r, UpdatePayloads)

\* What any caller may send as the updates of 'update': the content, or
\* fields of the row that are not the student's to write.
AnyUpdatePayloads ==
    UpdatePayloads \cup
    {[grade |-> Some(5)], [content |-> "y", graded_by |-> Some("l2")],
     [student_id |-> "s2"]}

----------------------------------------------------------------------------
(* grading-service                                                         *)

\* The fields 'update-grade' writes: not graded_by.
UpdateGradeFields(d, at) ==
    [grade |-> Some(d.grade), feedback |-> Some(d.feedback),
     graded_at |-> Some(at)]

\* 'grade' written like 'update-grade', leaving graded_by as it was.
GradeFieldsWithoutGrader(d, at) ==
    [grade |-> Some(d.grade), feedback |-> Some(d.feedback),
     graded_at |-> Some(at)]

\* The fields 'grade' writes, in one update.
GradeFields(d, at) ==
    [grade |-> Some(d.grade), feedback |-> Some(d.feedback),
     graded_by |-> Some(d.graded_by), graded_at |-> Some(at)]

\* 'grade': one update by id, with graded_at taken from the clock, read back
\* with .single().
GradeSubmission(r, ids, grades, feedbacks, graders) ==
    \E id \in ids, g \in grades, f \in feedbacks, by \in graders :
        LET d == [submission_id |-> id, grade |-> g, feedback |-> f,
                  graded_by |-> by, at |-> now]
            hit == {x \in submissions : x.id = id}
            upd == {ApplyUpdates(x, GradeFields(d, now)) : x \in hit}
            res == Single(upd)
            q == [Idle EXCEPT !.action = "grade", !.data = d]
        IN  /\ Fresh(r)
            /\ submissions' = (submissions \ hit) \cup upd
            /\ now' = now + 1
            /\ req' = [req EXCEPT ![r] =
                        IF res.error # Null
                        THEN Respond(q, 500, res.error[1].code)
                        ELSE [q EXCEPT !.pc = "notify", !.row = res.data]]
            /\ UNCHANGED <<roleSide, enrollments, assignments, courses, nextId, spage, lpage>>

\* send-notification is invoked for the student with the grade in the
\* message; the handler returns 200 whatever the invocation gives.
GradeNotify(r, outcomes) ==
    \E ok \in outcomes :
        /\ req[r].action = "grade"
        /\ req[r].pc = "notify"
        /\ req' = [req EXCEPT ![r] =
                    NotifyResponse(
                        Invoke(@, [user_id |-> req[r].row[1].student_id,
                                   type |-> "grade",
                                   title |-> "Assignment Graded",
                                   grade |-> req[r].row[1].grade], ok))]
        /\ UNCHANGED <<roleSide, enrollments, submissions, assignments, courses,
                       nextId, now, spage, lpage>>

----------------------------------------------------------------------------
(* SubmissionPage                                                          *)

\* fetchData: the page opens for a signed-in student and an assignment and
\* loads the student's submission with .maybeSingle(); with no row, or with
\* several (an error that is only logged), it keeps none.
SPageFetchData(p) ==
    \E s \in Students, a \in {x.id : x \in assignments} :
        LET res == MaybeSingle(WorkRows(submissions,
                                        [student_id |-> s, assignment_id |-> a]))
        IN  /\ spage[p].pc = "closed"
            /\ IF p = 1 THEN TRUE ELSE spage[p - 1].pc # "closed"
            /\ spage' = [spage EXCEPT ![p] =
                          [pc |-> "open", user |-> s, assignmentId |-> a,
                           submission |-> res.data,
                           content |-> IF res.data = Null THEN ""
                                       ELSE res.data[1].content]]
            /\ UNCHANGED <<roleSide, enrollments, submissions, assignments, courses,
                           nextId, now, req, lpage>>

\* isGraded and canEdit, from the submission the page loaded.
CanEdit(pg) == ~(pg.submission # Null /\ pg.submission[1].grade # Null)

\* handleSubmit, offered while canEdit: the student's text is written by an
\* update of the loaded submission when the page holds one, by an insert
\* otherwise; then the page is left.
SPageHandleSubmit(p, contents) ==
    \E c \in contents :
        LET pg == spage[p]
            hit == {x \in submissions : x.id = pg.submission[1].id}
            new == NewSubmission(nextId, pg.assignmentId, pg.user, c)
        IN  /\ pg.pc = "open"
            /\ CanEdit(pg)
            /\ IF pg.submission # Null
               THEN /\ submissions' = (submissions \ hit)
                            \cup {ApplyUpdates(x, [content |-> c]) : x \in hit}
                    /\ UNCHANGED nextId
               ELSE /\ submissions' = InsertRow(submissions, new)
                    /\ nextId' = nextId + 1
            /\ spage' = [spage EXCEPT ![p] = [pg EXCEPT !.pc = "left",
                                                        !.content = c]]
            /\ UNCHANGED <<roleSide, enrollments, assignments, courses, now, req, lpage>>

----------------------------------------------------------------------------
(* grading-service 'update-grade' and assignment-service 'update'         *)

\* 'update-grade': one update by id of grade, feedback and graded_at, read
\* back with .single(); no notification.
UpdateGrade(r, ids, grades, feedbacks) ==
    \E id \in ids, g \in grades, f \in feedbacks :
        LET d == [submission_id |-> id, grade |-> g, feedback |-> f, at |-> now]
            hit == {x \in submissions : x.id = id}
            upd == {ApplyUpdates(x, UpdateGradeFields(d, now)) : x \in hit}
            res == Single(upd)
            q == [Idle EXCEPT !.action = "update-grade", !.data = d]
        IN  /\ Fresh(r)
            /\ submissions' = (submissions \ hit) \cup upd
            /\ now' = now + 1
            /\ req' = [req EXCEPT ![r] =
                        IF res.error # Null
                        THEN Respond(q, 500, res.error[1].code)
                        ELSE Respond([q EXCEPT !.row = res.data], 200, "")]
            /\ UNCHANGED <<roleSide, enrollments, assignments, courses, nextId, spage, lpage>>

\* assignment-service 'update': one update by id of whatever fields the
\* request carries, read back with .single().
UpdateAssignment(r, payloads) ==
    \E id \in {a.id : a \in assignments}, updates \in payloads :
        LET d == [id |-> id, updates |-> updates]
            hit == {a \in assignments : a.id = id}
            upd == {ApplyUpdates(a, updates) : a \in hit}
            res == Single(upd)
            q == [Idle EXCEPT !.action = "update-assignment", !.data = d]
        IN  /\ Fresh(r)
            /\ assignments' = (assignments \ hit) \cup upd
            /\ req' = [req EXCEPT ![r] =
                        IF res.error # Null
                        THEN Respond(q, 500, res.error[1].code)
                        ELSE Respond([q EXCEPT !.row = res.data], 200, "")]
            /\ UNCHANGED <<roleSide, enrollments, submissions, courses, nextId, now,
                           spage, lpage>>

----------------------------------------------------------------------------
(* LecturerSubmissionsPage                                                 *)

Digits == <<"0", "1", "2", "3", "4", "5", "6", "7", "8", "9">>

IsDigit(c) == \E i \in DOMAIN Digits : Digits[i] = c

DigitValue(c) == (CHOOSE i \in DOMAIN Digits : Digits[i] = c) - 1

\* The text with its leading blanks dropped.
RECURSIVE TrimStart(_)
TrimStart(str) ==
    IF str # <<>> /\ Head(str) = " " THEN TrimStart(Tail(str)) ELSE str

\* The digits the text starts with.
RECURSIVE LeadingDigits(_)
LeadingDigits(str) ==
    IF str # <<>> /\ IsDigit(Head(str))
    THEN <<Head(str)>> \o LeadingDigits(Tail(str))
    ELSE <<>>

\* The decimal value of a run of digits.
RECURSIVE DecimalValue(_, _)
DecimalValue(digits, acc) ==
    IF digits = <<>> THEN acc
    ELSE DecimalValue(Tail(digits), 10 * acc + DigitValue(Head(digits)))

\* parseInt(text), a text being its characters in order: blanks are skipped,
\* then a sign, then the longest run of decimal digits is read and whatever
\* follows is ignored; NaN (null) when there is no digit to read.
ParseInt(text) ==
    LET str == TrimStart(text)
        signed == str # <<>> /\ Head(str) \in {"-", "+"}
        digits == LeadingDigits(IF signed THEN Tail(str) ELSE str)
        value == DecimalValue(digits, 0)
    IN  IF digits = <<>> THEN Null
        ELSE IF signed /\ Head(str) = "-" THEN Some(0 - value)
        ELSE Some(value)

\* What the number field of the grading dialog may hold.
GradeInputs ==
    { <<>>, <<"-", "1">>, <<"0">>, <<"3">>, <<"3", ".", "7">>, <<"6">>,
      <<"1", "e", "2">> }

\* What the feedback field may hold.
FeedbackInputs == {"", "ok"}

\* fetchAssignmentAndSubmissions: the page loads the assignment with
\* .maybeSingle() and the assignment's submissions, when it opens and again
\* after a grade was written.
LPageFetch(aid) ==
    LET res == MaybeSingle({a \in assignments : a.id = aid})
    IN  /\ lpage.pc \in {"closed", "reload"}
        /\ lpage' = IF res.data = Null
                    THEN [lpage EXCEPT !.pc = "left", !.toast = "Error"]
                    ELSE [lpage EXCEPT !.pc = "list", !.assignment = res.data,
                            !.submissions =
                                {x \in submissions : x.assignment_id = aid}]
        /\ UNCHANGED <<roleSide, enrollments, submissions, assignments, courses, nextId,
                       now, req, spage>>

\* grade?.toString() || "": the digits of a grade the dialog starts with.
GradeText(grade) ==
    IF grade = Null THEN <<>>
    ELSE IF grade[1] \in 0..9 THEN <<Digits[grade[1] + 1]>>
    ELSE IF grade[1] \in 10..99
         THEN <<Digits[(grade[1] \div 10) + 1], Digits[(grade[1] % 10) + 1]>>
    ELSE IF grade[1] \in -9..-1 THEN <<"-", Digits[1 - grade[1]]>>
    ELSE <<"?">>

\* openGradingDialog for one of the loaded submissions.
LPageOpenGradingDialog ==
    \E x \in lpage.submissions :
        /\ lpage.pc = "list"
        /\ lpage.gradingSubmission = Null
        /\ lpage' = [lpage EXCEPT
                        !.gradingSubmission = Some(x),
                        !.grade = GradeText(x.grade),
                        !.feedback = IF x.feedback = Null THEN ""
                                     ELSE x.feedback[1]]
        /\ UNCHANGED <<roleSide, enrollments, submissions, assignments, courses, nextId,
                       now, req, spage>>

\* The lecturer fills in the dialog: setGrade and setFeedback.
LPageType(inputs, feedbacks) ==
    \E g \in inputs, f \in feedbacks :
        /\ lpage.pc = "list"
        /\ lpage.gradingSubmission # Null
        /\ lpage' = [lpage EXCEPT !.grade = g, !.feedback = f]
        /\ UNCHANGED <<roleSide, enrollments, submissions, assignments, courses, nextId,
                       now, req, spage>>

\* The check handleGrade makes of the parsed grade.
GradeRejectedNoUpperBound(gradeNum, max_grade) ==
    gradeNum = Null \/ gradeNum[1] < 0

GradeRejected(gradeNum, max_grade) ==
    gradeNum = Null \/ gradeNum[1] < 0 \/ gradeNum[1] > max_grade

\* handleGrade up to its first await: a grade that is rejected is answered
\* with a toast; otherwise submitting is set and the write is under way.
LPageHandleGrade ==
    LET gradeNum == ParseInt(lpage.grade)
    IN  /\ lpage.pc = "list"
        /\ lpage.gradingSubmission # Null
        /\ lpage.assignment # Null
        /\ ~lpage.submitting
        /\ now <= MaxClock
        /\ lpage' = IF GradeRejected(gradeNum, lpage.assignment[1].max_grade)
                    THEN [lpage EXCEPT !.toast = "Invalid Grade"]
                    ELSE [lpage EXCEPT
                            !.pc = "grading",
                            !.submitting = TRUE,
                            !.pending =
                                Some([submission_id |-> lpage.gradingSubmission[1].id,
                                      grade |-> gradeNum[1],
                                      feedback |-> lpage.feedback])]
        /\ UNCHANGED <<roleSide, enrollments, submissions, assignments, courses, nextId,
                       now, req, spage>>

\* The fields handleGrade writes: feedback || null.
PageGradeFields(d, by, at) ==
    [grade |-> Some(d.grade),
     feedback |-> IF d.feedback = "" THEN Null ELSE Some(d.feedback),
     graded_by |-> Some(by), graded_at |-> Some(at)]

\* handleGrade after safeGetUser: with no user the page is left; otherwise
\* one update by id writes the grade, the dialog closes and the list is
\* loaded again; submitting is reset either way.
LPageGradeWrite ==
    \E user \in {Null} \cup {Some(l) : l \in {"l1"}} :
        LET d == lpage.pending[1]
            hit == {x \in submissions : x.id = d.submission_id}
        IN  /\ lpage.pc = "grading"
            /\ IF user = Null
               THEN /\ lpage' = [lpage EXCEPT !.pc = "left", !.submitting = FALSE,
                                              !.pending = Null]
                    /\ UNCHANGED <<submissions, now>>
               ELSE /\ submissions' = (submissions \ hit) \cup
                            {ApplyUpdates(x, PageGradeFields(d, user[1], now)) :
                                x \in hit}
                    /\ now' = now + 1
                    /\ lpage' = [lpage EXCEPT
                                    !.pc = "reload", !.submitting = FALSE,
                                    !.pending = Null,
                                    !.gradingSubmission = Null,
                                    !.toast = "Submission graded successfully!"]
            /\ UNCHANGED <<roleSide, enrollments, assignments, courses, nextId, req, spage>>

----------------------------------------------------------------------------
(* course-service 'create' and assignment-service 'create'                 *)

\* Identifiers the store may give a new course, and a new assignment.
NewCourseIds == {"c2", "c3", "c4", "c5", "c6"}

NewAssignmentIds == {"a2", "a3", "a4", "a5", "a6"}

\* The identifiers of the pool that no row of the table has.
Unused(pool, table) == {id \in pool : \A x \in table : x.id # id}

\* An insert of the request's data as it came.
CourseFieldsWholeData(data) == DOMAIN data

\* The fields of the request's data that the insert of createCourse names.
CourseFields(data) ==
    DOMAIN data \cap {"title", "description", "lecturer_id", "created_by"}

\* The row the store makes of the insert: the fields given, an identifier
\* and the time of creation.  A field not given is left to the store (no
\* value here).
NewCourse(id, at, data) ==
    [f \in CourseFields(data) \cup {"id", "created_at"} |->
        IF f = "id" THEN id
        ELSE IF f = "created_at" THEN at
        ELSE data[f]]

\* 'create' of course-service: the insert, read back with .single().
CreateCourse(r, datas) ==
    \E data \in datas :
        LET unused == Unused(NewCourseIds, courses)
            new == NewCourse(CHOOSE id \in unused : TRUE, now, data)
            q == [Idle EXCEPT !.action = "create-course", !.data = data]
        IN  /\ Fresh(r)
            /\ unused # {}
            /\ courses' = InsertRow(courses, new)
            /\ req' = [req EXCEPT ![r] =
                        IF new \in courses'
                        THEN [q EXCEPT !.pc = "notify", !.row = Some(new)]
                        ELSE Respond(q, 500, "duplicate key value")]
            /\ UNCHANGED <<roleSide, enrollments, submissions, assignments,
                           nextId, now, spage, lpage>>

\* The creator is notified; the handler returns 200 whatever the invocation
\* gives.
CourseNotify(r, outcomes) ==
    \E ok \in outcomes :
        /\ req[r].action = "create-course"
        /\ req[r].pc = "notify"
        /\ req' = [req EXCEPT ![r] =
                    NotifyResponse(
                        Invoke(@, [user_id |-> req[r].data.created_by,
                                   type |-> "course",
                                   title |-> "Course Created"], ok))]
        /\ UNCHANGED <<roleSide, enrollments, submissions, assignments, courses,
                       nextId, now, spage, lpage>>

\* max_grade: data.max_grade || 100.
MaxGradeOrDefault(g) == IF g = 0 THEN 100 ELSE g

\* 'create' of assignment-service: the insert, read back with .single().
CreateAssignment(r, courseIds, maxGrades) ==
    \E c \in courseIds, g \in maxGrades :
        LET unused == Unused(NewAssignmentIds, assignments)
            new == [id |-> CHOOSE id \in unused : TRUE, course_id |-> c,
                    max_grade |-> MaxGradeOrDefault(g)]
            q == [Idle EXCEPT !.action = "create-assignment",
                              !.data = [course_id |-> c, max_grade |-> g]]
        IN  /\ Fresh(r)
            /\ unused # {}
            /\ assignments' = InsertRow(assignments, new)
            /\ req' = [req EXCEPT ![r] =
                        IF new \in assignments'
                        THEN [q EXCEPT !.pc = "read", !.row = Some(new)]
                        ELSE Respond(q, 500, "duplicate key value")]
            /\ UNCHANGED <<roleSide, enrollments, submissions, courses, nextId,
                           now, spage, lpage>>

\* The rows of a result in the order of their identifiers.
RECURSIVE RowsInOrder(_)
RowsInOrder(rows) ==
    IF rows = {} THEN <<>>
    ELSE LET first == CHOOSE x \in rows : \A y \in rows : x.id <= y.id
         IN  <<first>> \o RowsInOrder(rows \ {first})

\* .eq('course_id', ...).eq('status', 'active')
ActiveEnrollments(table, c) ==
    {e \in table : e.course_id = c /\ e.status = "active"}

\* "Get enrolled students to notify": the enrollments of the course with
\* status 'active' are read, their error is not; with rows to go through the
\* loop starts, otherwise the handler returns 200 at once.
AssignmentRead(r, outcomes) ==
    \E ok \in outcomes :
        LET rows == RowsInOrder(ActiveEnrollments(enrollments,
                                                  req[r].data.course_id))
            res == IF ok THEN [data |-> Some(rows), error |-> Null]
                   ELSE [data |-> Null, error |-> Some("connection error")]
            q == [req[r] EXCEPT !.read = Append(@, res)]
        IN  /\ req[r].action = "create-assignment"
            /\ req[r].pc = "read"
            /\ req' = [req EXCEPT ![r] =
                        IF res.data # Null /\ Len(res.data[1]) > 0
                        THEN [q EXCEPT !.pc = "notify", !.queue = res.data[1]]
                        ELSE NotifyResponse(q)]
            /\ UNCHANGED <<roleSide, enrollments, submissions, assignments,
                           courses, nextId, now, spage, lpage>>

\* One turn of the loop: the student of the next enrollment row is notified;
\* after the last row the handler returns 200.
AssignmentNotify(r, outcomes) ==
    \E ok \in outcomes :
        LET q == Invoke([req[r] EXCEPT !.queue = Tail(@)],
                        [user_id |-> Head(req[r].queue).student_id,
                         type |-> "assignment",
                         title |-> "New Assignment"], ok)
        IN  /\ req[r].action = "create-assignment"
            /\ req[r].pc = "notify"
            /\ req' = [req EXCEPT ![r] =
                        IF q.queue = <<>> THEN NotifyResponse(q) ELSE q]
            /\ UNCHANGED <<roleSide, enrollments, submissions, assignments,
                           courses, nextId, now, spage, lpage>>

----------------------------------------------------------------------------
(* The routers: serve() of each service.                                   *)

Services ==
    {"course-service", "assignment-service", "enrollment-service",
     "grading-service", "submission-service", "analytics-service"}

\* The cases of each router's switch (action).
ServiceActions(s) ==
    CASE s = "course-service" -> {"create", "update", "delete", "list", "get"}
      [] s = "assignment-service" ->
            {"create", "update", "delete", "list", "get"}
      [] s = "enrollment-service" ->
            {"enroll", "unenroll", "list", "update-status"}
      [] s = "grading-service" -> {"grade", "update-grade", "get-statistics"}
      [] s = "submission-service" -> {"create", "update", "list", "get"}
      [] s = "analytics-service" ->
            {"course-analytics", "student-performance", "system-metrics"}

\* A router whose default case throws.
RouteDefaultThrows(q) == Respond(q, 500, "Invalid action")

\* A router whose default case answers 404.
RouteDefaultNotFound(q) == Respond(q, 404, "Invalid action")

\* default: of the switch.
RouteDefault(q) == Respond(q, 400, "Invalid action")

\* A POST reaches the router of service s with an action that is no case of
\* its switch.
RouteInvalid(r, services, actions) ==
    \E s \in services, a \in actions :
        /\ Fresh(r)
        /\ a \notin ServiceActions(s)
        /\ req' = [req EXCEPT ![r] =
                    RouteDefault([Idle EXCEPT !.action = "invalid",
                                              !.data = [service |-> s,
                                                        action |-> a]])]
        /\ UNCHANGED <<roleSide, enrollments, submissions, assignments, courses,
                       nextId, now, spage, lpage>>

----------------------------------------------------------------------------
(* analytics-service                                                       *)

\* A select without .single(): the rows, or no data and an error.
Select(rows, ok) ==
    IF ok THEN [data |-> Some(rows), error |-> Null]
    ELSE [data |-> Null, error |-> Some("connection error")]

\* The six queries of getSystemMetrics, in their order.
MetricNames ==
    <<"courses", "students", "lecturers", "assignments", "submissions",
      "enrollments">>

MetricRows(name) ==
    CASE name = "courses" -> courses
      [] name = "students" -> {u \in user_roles : u.role = "student"}
      [] name = "lecturers" -> {u \in user_roles : u.role = "lecturer"}
      [] name = "assignments" -> assignments
      [] name = "submissions" -> submissions
      [] name = "enrollments" -> enrollments

\* x?.length || 0
LengthOrZero(res) == IF res.data = Null THEN 0 ELSE Cardinality(res.data[1])

\* The metrics object: one count per query, taken from its data alone.
Metrics(read) == [i \in 1..Len(read) |-> LengthOrZero(read[i])]

\* The request after one more query of getSystemMetrics: after the sixth
\* the handler returns 200 with the metrics.
AfterMetricQuery(q, ok) ==
    LET res == Select(MetricRows(MetricNames[Len(q.read) + 1]), ok)
        q2 == [q EXCEPT !.read = Append(@, res)]
    IN  IF Len(q2.read) = Len(MetricNames)
        THEN Respond([q2 EXCEPT !.row = Some(Metrics(q2.read))], 200, "")
        ELSE q2

\* 'system-metrics' arrives and the first query is made.
GetSystemMetrics(r, outcomes) ==
    \E ok \in outcomes :
        /\ Fresh(r)
        /\ req' = [req EXCEPT ![r] =
                    AfterMetricQuery([Idle EXCEPT !.action = "system-metrics",
                                                  !.pc = "metrics"], ok)]
        /\ UNCHANGED <<roleSide, enrollments, submissions, assignments, courses,
                       nextId, now, spage, lpage>>

\* The next query of getSystemMetrics.
MetricsQuery(r, outcomes) ==
    \E ok \in outcomes :
        /\ req[r].action = "system-metrics"
        /\ req[r].pc = "metrics"
        /\ req' = [req EXCEPT ![r] = AfterMetricQuery(@, ok)]
        /\ UNCHANGED <<roleSide, enrollments, submissions, assignments, courses,
                       nextId, now, spage, lpage>>

\* A quotient cut down to its whole part.
RoundDown(n, d) == n \div d

\* Math.round(n / d) for d > 0: the nearest integer, a half going up.
RoundHalfUp(n, d) == (2 * n + d) \div (2 * d)

\* submissions?.filter(s => s.grade !== null)
GradedSubmissions(rows) == {x \in rows : x.grade # Null}

\* reduce((sum, s) => sum + s.grade, 0)
RECURSIVE SumGrades(_)
SumGrades(rows) ==
    IF rows = {} THEN 0
    ELSE LET x == CHOOSE y \in rows : TRUE
         IN  x.grade[1] + SumGrades(rows \ {x})

\* average_grade, in hundredths: Math.round(averageGrade * 100) / 100.
AverageGrade(graded) ==
    IF Cardinality(graded) > 0
    THEN RoundHalfUp(100 * SumGrades(graded), Cardinality(graded))
    ELSE 0

\* enrollments?.length || 1
LengthOrOne(n) == IF n = 0 THEN 1 ELSE n

\* completion_rate, for g graded submissions, e enrollments, a assignments.
CompletionRate(g, e, a) ==
    IF a > 0 THEN RoundHalfUp(100 * g, LengthOrOne(e) * a) ELSE 0

\* A select with no join: every submission.
AllSubmissions(subs, asgs, c) == subs

\* select('*, assignments!inner(course_id)').eq('assignments.course_id', c)
CourseSubmissions(subs, asgs, c) ==
    {x \in subs : \E a \in asgs : a.id = x.assignment_id /\ a.course_id = c}

\* The analytics object computed from the three results.
Analytics(read) ==
    LET e == LengthOrZero(read[1])
        a == LengthOrZero(read[2])
        graded == GradedSubmissions(read[3].data[1])
    IN  [total_students |-> e, total_assignments |-> a,
         total_submissions |-> LengthOrZero(read[3]),
         graded_submissions |-> Cardinality(graded),
         average_grade |-> AverageGrade(graded),
         completion_rate |-> CompletionRate(Cardinality(graded), e, a)]

\* The request after a query of getCourseAnalytics gave res: an error is
\* thrown, the third result is followed by the Response.
AfterAnalyticsQuery(q, res) ==
    LET q2 == [q EXCEPT !.read = Append(@, res)]
    IN  IF res.error # Null THEN Respond(q2, 500, res.error[1])
        ELSE IF Len(q2.read) = 3
        THEN Respond([q2 EXCEPT !.row = Some(Analytics(q2.read))], 200, "")
        ELSE q2

\* 'course-analytics' arrives and the enrollments of the course are read.
GetCourseAnalytics(r, courseIds, outcomes) ==
    \E c \in courseIds, ok \in outcomes :
        /\ Fresh(r)
        /\ req' = [req EXCEPT ![r] =
                    AfterAnalyticsQuery(
                        [Idle EXCEPT !.action = "course-analytics",
                                     !.data = [course_id |-> c],
                                     !.pc = "assignments"],
                        Select({e \in enrollments : e.course_id = c}, ok))]
        /\ UNCHANGED <<roleSide, enrollments, submissions, assignments, courses,
                       nextId, now, spage, lpage>>

\* The assignments of the course are read.
AnalyticsAssignments(r, outcomes) ==
    \E ok \in outcomes :
        /\ req[r].action = "course-analytics"
        /\ req[r].pc = "assignments"
        /\ req' = [req EXCEPT ![r] =
                    AfterAnalyticsQuery(
                        [@ EXCEPT !.pc = "submissions"],
                        Select({a \in assignments :
                                  a.course_id = req[r].data.course_id}, ok))]
        /\ UNCHANGED <<roleSide, enrollments, submissions, assignments, courses,
                       nextId, now, spage, lpage>>

\* The submissions of the course's assignments are read and the analytics
\* computed.
AnalyticsSubmissions(r, outcomes) ==
    \E ok \in outcomes :
        /\ req[r].action = "course-analytics"
        /\ req[r].pc = "submissions"
        /\ req' = [req EXCEPT ![r] =
                    AfterAnalyticsQuery(
                        @,
                        Select(CourseSubmissions(submissions, assignments,
                                                 req[r].data.course_id), ok))]
        /\ UNCHANGED <<roleSide, enrollments, submissions, assignments, courses,
                       nextId, now, spage, lpage>>

----------------------------------------------------------------------------
(* user_roles: the INSERT policies.                                        *)

\* Number of rows user_roles may come to hold.
MaxRoleRows == 4

Users == {"adm", "u1", "u2"}

\* app_role
Roles == {"admin", "lecturer", "student"}

\* has_role(uid, role): a row of user_roles gives the user the role.
HasRole(table, uid, role) ==
    \E x \in table : x.user_id = uid /\ x.role = role

\* A self-signup policy that leaves the role open.
SelfSignupAnyRole(caller, row) == caller = row.user_id

\* "Users can set their own role during signup":
\* auth.uid() = user_id AND role IN ('student', 'lecturer')
SelfSignupPolicy(caller, row) ==
    caller = row.user_id /\ row.role \in {"student", "lecturer"}

\* "Admins can insert any role": has_role(auth.uid(), 'admin')
AdminInsertPolicy(table, caller) == HasRole(table, caller, "admin")

\* The two policies are permissive: a row that passes either is inserted.
InsertPermitted(table, caller, row) ==
    SelfSignupPolicy(caller, row) \/ AdminInsertPolicy(table, caller)

\* No insert has been asked for.
NoInsert == [caller |-> "", row |-> Null, permitted |-> FALSE]

\* Caller asks for the insert of (user_id, role) into user_roles.
InsertRole(callers, users, roles) ==
    \E caller \in callers, u \in users, role \in roles :
        LET row == [id |-> Cardinality(user_roles) + 1, user_id |-> u,
                    role |-> role]
            permitted == InsertPermitted(user_roles, caller, row)
        IN  /\ Cardinality(user_roles) < MaxRoleRows
            /\ user_roles' = IF permitted THEN InsertRow(user_roles, row)
                             ELSE user_roles
            /\ roleInsert' = [caller |-> caller, row |-> Some(row),
                              permitted |-> permitted]
            /\ UNCHANGED <<enrollments, submissions, assignments, courses,
                           nextId, now, req, spage, lpage, dash, readSide>>

----------------------------------------------------------------------------
(* Dashboard.checkAuth                                                     *)

\* let retries = 3
DashRetries == 3

\* A Dashboard that is not open.
DashClosed ==
    [pc |-> "closed", user |-> "", retries |-> 0, roles |-> Null,
     queries |-> 0, waits |-> 0, userRole |-> "", toast |-> "",
     loading |-> TRUE]

\* checkAuth starts: the session is read; without one the page leaves for
\* /auth, with one the loop is entered.
DashCheckAuth(sessions) ==
    \E session \in sessions :
        /\ dash.pc = "closed"
        /\ dash' = IF session = Null
                   THEN [dash EXCEPT !.pc = "auth"]
                   ELSE [dash EXCEPT !.pc = "loop", !.user = session[1],
                                     !.retries = DashRetries]
        /\ UNCHANGED <<enrollments, submissions, assignments, courses, nextId,
                       now, req, spage, lpage, user_roles, roleInsert, readSide>>

\* A loop that goes on while any try is left.
RetryWhileTriesLeft(retries, roles) == retries > 0

\* while (retries > 0 && !roles)
RetryAgain(retries, roles) == retries > 0 /\ roles = Null

\* .eq("user_id", ...).limit(1).maybeSingle(): one of the user's rows, if
\* there is one; an error gives no data.
RoleQuery(table, uid, ok) ==
    IF ok THEN {Some(x.role) : x \in {y \in table : y.user_id = uid}}
               \cup (IF \E y \in table : y.user_id = uid THEN {} ELSE {Null})
    ELSE {Null}

\* A wait after every query that gave no role.
WaitAfterEveryMiss(roles, retries) == roles = Null

\* if (!roles && retries > 1): the 500 ms wait before the next query.
WaitBeforeRetry(roles, retries) == roles = Null /\ retries > 1

\* One turn of the loop: the role is queried, the result kept, the wait made
\* if there is to be another turn, and a try used up.
DashRoleQuery(outcomes) ==
    \E ok \in outcomes :
        \E data \in RoleQuery(user_roles, dash.user, ok) :
            /\ dash.pc = "loop"
            /\ RetryAgain(dash.retries, dash.roles)
            /\ dash' = [dash EXCEPT
                        !.roles = data,
                        !.waits = IF WaitBeforeRetry(data, dash.retries)
                                  THEN @ + 1 ELSE @,
                        !.retries = @ - 1,
                        !.queries = @ + 1]
            /\ UNCHANGED <<enrollments, submissions, assignments, courses,
                           nextId, now, req, spage, lpage, user_roles,
                           roleInsert, readSide>>

\* After the loop: the role found, or 'student' with a notice; then
\* setLoading(false).
DashSetRole ==
    /\ dash.pc = "loop"
    /\ ~RetryAgain(dash.retries, dash.roles)
    /\ dash' = IF dash.roles # Null
               THEN [dash EXCEPT !.pc = "ready", !.userRole = dash.roles[1],
                                 !.loading = FALSE]
               ELSE [dash EXCEPT !.pc = "ready", !.userRole = "student",
                                 !.toast = "Notice", !.loading = FALSE]
    /\ UNCHANGED <<enrollments, submissions, assignments, courses, nextId,
                   now, req, spage, lpage, user_roles, roleInsert, readSide>>

----------------------------------------------------------------------------
(* AssignmentsPage.handleCreateAssignment                                  *)

\* What the number field "Maximum Grade" may hold when the form is sent: the
\* field is required, so it is not empty.
MaxGradeInputs == { <<"-", "5">>, <<"0">>, <<"7">> }

\* The form is sent: maxGrade is what parseInt made of the field, and the
\* row is inserted with it.
HandleCreateAssignment(courseIds, inputs) ==
    \E c \in courseIds, text \in inputs :
        LET maxGrade == ParseInt(text)
            unused == Unused(NewAssignmentIds, assignments)
            new == [id |-> CHOOSE id \in unused : TRUE, course_id |-> c,
                    max_grade |-> maxGrade[1]]
        IN  /\ maxGrade # Null
            /\ unused # {}
            /\ assignments' = InsertRow(assignments, new)
            /\ UNCHANGED <<roleSide, enrollments, submissions, courses, nextId,
                           now, req, spage, lpage>>

----------------------------------------------------------------------------
(* Writes that the store turns down.                                       *)

\* A handler that notified although its write had failed.
WriteErrorNotified(q, message) ==
    Respond(Invoke(q, [type |-> q.action], TRUE), 500, message)

\* if (error) throw error: the router answers 500 with the message.
WriteError(q, message) == Respond(q, 500, message)

\* The insert of enrollStudent or of createSubmission returns an error:
\* nothing is written.
InsertFails(r) ==
    /\ req[r].action \in {"enroll", "create"}
    /\ req[r].pc = "insert"
    /\ req' = [req EXCEPT ![r] = WriteError(@, "connection error")]
    /\ UNCHANGED <<roleSide, enrollments, submissions, assignments, courses,
                   nextId, now, spage, lpage>>

\* 'create' of course-service or of assignment-service arrives and its
\* insert returns an error: nothing is written.
CreateFails(r, actions) ==
    \E a \in actions :
        /\ Fresh(r)
        /\ req' = [req EXCEPT ![r] =
                    WriteError([Idle EXCEPT !.action = a],
                               "connection error")]
        /\ UNCHANGED <<roleSide, enrollments, submissions, assignments,
                       courses, nextId, now, spage, lpage>>

----------------------------------------------------------------------------
(* assignment-service 'delete'                                             *)

\* What the store may do with the submissions of an assignment that is
\* deleted; the sources declare no foreign key: the delete is refused while
\* there are submissions, the submissions go with the assignment, or they
\* stay behind.
DeleteRules == {"restrict", "cascade", "none"}

\* 'delete' of assignment-service: the delete by id; its error is thrown.
DeleteAssignment(r, ids, rules) ==
    \E id \in ids, rule \in rules :
        LET q == [Idle EXCEPT !.action = "delete-assignment",
                              !.data = [id |-> id]]
            owned == {x \in submissions : x.assignment_id = id}
            refused == rule = "restrict" /\ owned # {}
        IN  /\ Fresh(r)
            /\ assignments' = IF refused THEN assignments
                              ELSE {a \in assignments : a.id # id}
            /\ submissions' = IF rule = "cascade" THEN submissions \ owned
                              ELSE submissions
            /\ req' = [req EXCEPT ![r] =
                        IF refused
                        THEN WriteError(q, "violates foreign key constraint")
                        ELSE Respond(q, 200, "")]
            /\ UNCHANGED <<roleSide, enrollments, courses, nextId, now, spage,
                           lpage>>

----------------------------------------------------------------------------
(* safeAuth: safeGetSession and safeGetUser                                *)

\* What supabase.auth.getSession() or getUser() gives: {data, error} with
\* the session or user (or none), {data, error} with an error, or an
\* exception.
AuthReturned(value) == [kind |-> "data", value |-> value, code |-> ""]
AuthError(code) == [kind |-> "error", value |-> Null, code |-> code]
AuthThrown == [kind |-> "throw", value |-> Null, code |-> "fetch failed"]

AuthOutcomes ==
    {AuthReturned(Null), AuthReturned(Some("l1")),
     AuthError("refresh_token_not_found"), AuthError("bad_jwt"), AuthThrown}

\* What supabase.auth.signOut() does when it is called.
SignOutOutcomes == {"ok", "error", "throw"}

\* No call of a helper made yet.
SafeNone ==
    [fn |-> "none", call |-> AuthReturned(Null), signOut |-> "ok",
     result |-> [value |-> Null, error |-> Null, signOuts |-> 0,
                 thrown |-> Null]]

\* The try block: the auth call; on its error a signOut when the code is
\* 'refresh_token_not_found', and the error returned; otherwise the session
\* or user returned.  thrown is the exception that left the block.
SafeTry(call, signOut) ==
    LET none == [value |-> Null, error |-> Null, signOuts |-> 0,
                 thrown |-> Null]
    IN  IF call.kind = "throw" THEN [none EXCEPT !.thrown = Some(call.code)]
        ELSE IF call.kind = "error"
        THEN IF call.code = "refresh_token_not_found"
             THEN IF signOut = "throw"
                  THEN [none EXCEPT !.signOuts = 1,
                                    !.thrown = Some("signOut failed")]
                  ELSE [none EXCEPT !.signOuts = 1,
                                    !.error = Some(call.code)]
             ELSE [none EXCEPT !.error = Some(call.code)]
        ELSE [none EXCEPT !.value = call.value]

\* A helper that lets the exception go to its caller.
SafeNoCatch(t) == t

\* catch (err) { return { session: null, error: err } }
SafeCatch(t) ==
    IF t.thrown # Null
    THEN [t EXCEPT !.value = Null, !.error = t.thrown, !.thrown = Null]
    ELSE t

\* safeGetSession and safeGetUser: the same body over getSession and
\* getUser.
SafeGet(fn, call, signOut) ==
    [fn |-> fn, call |-> call, signOut |-> signOut,
     result |-> SafeCatch(SafeTry(call, signOut))]

\* A caller asks safeGetSession for the session.
SafeGetSession(calls, signOuts) ==
    \E call \in calls, signOut \in signOuts :
        /\ safe' = SafeGet("safeGetSession", call, signOut)
        /\ UNCHANGED <<enrollments, submissions, assignments, courses, nextId,
                       now, req, spage, lpage, user_roles, roleInsert, dash,
                       ppage>>

----------------------------------------------------------------------------
(* StudentProgressPage.fetchProgressData                                   *)

\* A StudentProgressPage that is not open.
PClosed ==
    [pc |-> "closed", courseId |-> "", loading |-> TRUE, studentIds |-> <<>>,
     named |-> FALSE, assignments |-> Null, progress |-> <<>>,
     toast |-> "", dropped |-> {}]

\* catch: toast "Error"; finally: setLoading(false).
ProgressThrow(pg, message) ==
    [pg EXCEPT !.pc = "shown", !.toast = message, !.loading = FALSE]

\* The page is opened for a course: safeGetUser, then the course is read.
\* Without a user the page leaves for /auth; without the course it leaves
\* for /dashboard with a toast.
ProgressFetch(courseIds, calls, signOuts, outcomes) ==
    \E c \in courseIds, call \in calls, signOut \in signOuts,
       ok \in outcomes :
        LET got == SafeGet("safeGetUser", call, signOut)
            pg == [PClosed EXCEPT !.courseId = c]
            res == IF ok THEN MaybeSingle({x \in courses : x.id = c})
                   ELSE [data |-> Null, error |-> Some("connection error")]
        IN  /\ ppage.pc = "closed"
            /\ safe' = got
            /\ ppage' =
                IF got.result.value = Null \/ got.result.error # Null
                THEN [pg EXCEPT !.pc = "auth", !.loading = FALSE]
                ELSE IF res.error # Null
                THEN ProgressThrow(pg, "Error")
                ELSE IF res.data = Null
                THEN [pg EXCEPT !.pc = "dashboard",
                                !.toast = "Course not found",
                                !.loading = FALSE]
                ELSE [pg EXCEPT !.pc = "enrollments"]
            /\ UNCHANGED <<enrollments, submissions, assignments, courses,
                           nextId, now, req, spage, lpage, user_roles,
                           roleInsert, dash>>

\* enrollments?.map(e => e.student_id)
RECURSIVE StudentIdsOf(_)
StudentIdsOf(rows) ==
    IF rows = <<>> THEN <<>>
    ELSE <<Head(rows).student_id>> \o StudentIdsOf(Tail(rows))

\* The active enrollments of the course are read; with none the report is
\* empty.
ProgressEnrollments(outcomes) ==
    \E ok \in outcomes :
        LET rows == RowsInOrder(ActiveEnrollments(enrollments, ppage.courseId))
        IN  /\ ppage.pc = "enrollments"
            /\ ppage' =
                IF ~ok THEN ProgressThrow(ppage, "Error")
                ELSE IF rows = <<>>
                THEN [ppage EXCEPT !.pc = "shown", !.loading = FALSE]
                ELSE [ppage EXCEPT !.pc = "profiles",
                                   !.studentIds = StudentIdsOf(rows)]
            /\ UNCHANGED <<enrollments, submissions, assignments, courses,
                           nextId, now, req, spage, lpage, user_roles,
                           roleInsert, dash, safe>>

\* The profiles of the students are read; the error of the query is not.
ProgressProfiles(outcomes) ==
    \E ok \in outcomes :
        /\ ppage.pc = "profiles"
        /\ ppage' = [ppage EXCEPT
                        !.pc = "assignments",
                        !.named = ok,
                        !.dropped = IF ok THEN @ ELSE @ \cup {"profiles"}]
        /\ UNCHANGED <<enrollments, submissions, assignments, courses, nextId,
                       now, req, spage, lpage, user_roles, roleInsert, dash,
                       safe>>

\* The place of a student's full_name among the names.
NameRank(s) ==
    CASE s = "s1" -> 2
      [] s = "s2" -> 1
      [] OTHER -> 3

\* entry put into a sequence sorted by name, after the entries whose name
\* is not greater; without profiles every name is "Unknown Student".
RECURSIVE InsertByName(_, _, _)
InsertByName(sorted, entry, named) ==
    IF sorted = <<>> THEN <<entry>>
    ELSE IF named /\ NameRank(entry.student_id) < NameRank(Head(sorted).student_id)
    THEN <<entry>> \o sorted
    ELSE <<Head(sorted)>> \o InsertByName(Tail(sorted), entry, named)

\* progressData.sort((a, b) => a.student_name.localeCompare(b.student_name))
RECURSIVE SortByName(_, _)
SortByName(entries, named) ==
    IF entries = <<>> THEN <<>>
    ELSE InsertByName(SortByName(SubSeq(entries, 1, Len(entries) - 1), named),
                      entries[Len(entries)], named)

\* assignments?.length ? Math.round((submittedCount / assignments.length)
\* * 100) : 0
SubmissionRate(count, asgs) ==
    IF asgs # Null /\ Cardinality(asgs[1]) > 0
    THEN RoundHalfUp(100 * count, Cardinality(asgs[1]))
    ELSE 0

\* The entry of one student: the assignments read, each with whether
\* submissionsMap holds a submission of the student for it.
ProgressEntry(s, asgs, rows) ==
    LET read == IF asgs = Null THEN {} ELSE asgs[1]
        submitted ==
            {a.id : a \in {b \in read :
                            \E x \in rows : /\ x.student_id = s
                                            /\ x.assignment_id = b.id}}
    IN  [student_id |-> s, submitted |-> submitted,
         submissionRate |-> SubmissionRate(Cardinality(submitted), asgs)]

\* studentIds.map(...), sorted, and shown.
BuildProgress(pg, rows) ==
    [pg EXCEPT
        !.pc = "shown", !.loading = FALSE,
        !.progress =
            SortByName([i \in 1..Len(pg.studentIds) |->
                          ProgressEntry(pg.studentIds[i], pg.assignments, rows)],
                       pg.named)]

\* The assignments of the course are read, the error of the query is not;
\* with no assignment the submissions are not read.
ProgressAssignments(outcomes) ==
    \E ok \in outcomes :
        LET res == Select({a \in assignments : a.course_id = ppage.courseId}, ok)
            pg == [ppage EXCEPT
                    !.assignments = res.data,
                    !.dropped = IF ok THEN @ ELSE @ \cup {"assignments"}]
        IN  /\ ppage.pc = "assignments"
            /\ ppage' = IF res.data = Null \/ res.data = Some({})
                        THEN BuildProgress(pg, {})
                        ELSE [pg EXCEPT !.pc = "submissions"]
            /\ UNCHANGED <<enrollments, submissions, assignments, courses,
                           nextId, now, req, spage, lpage, user_roles,
                           roleInsert, dash, safe>>

\* The submissions of the students for the assignments are read, the error
\* of the query is not, and the report is built.
ProgressSubmissions(outcomes) ==
    \E ok \in outcomes :
        LET ids == {a.id : a \in ppage.assignments[1]}
            students == {ppage.studentIds[i] : i \in 1..Len(ppage.studentIds)}
            res == Select({x \in submissions : /\ x.assignment_id \in ids
                                               /\ x.student_id \in students},
                          ok)
            rows == IF res.data = Null THEN {} ELSE res.data[1]
        IN  /\ ppage.pc = "submissions"
            /\ ppage' = BuildProgress(
                            [ppage EXCEPT
                                !.dropped = IF ok THEN @
                                            ELSE @ \cup {"submissions"}],
                            rows)
            /\ UNCHANGED <<enrollments, submissions, assignments, courses,
                           nextId, now, req, spage, lpage, user_roles,
                           roleInsert, dash, safe>>

\* No progress page open and no helper called.
InitReaders ==
    /\ ppage = PClosed
    /\ safe = SafeNone

\* user_roles as the setup leaves it: the first admin is inserted through
\* the SQL editor.  No insert asked for, no Dashboard open.
InitRoles ==
    /\ user_roles = {[id |-> 1, user_id |-> "adm", role |-> "admin"]}
    /\ roleInsert = NoInsert
    /\ dash = DashClosed

----------------------------------------------------------------------------
\* The store before any request: one course with its assignment, no
\* enrollment and no submission yet.
InitStore ==
    /\ enrollments = {}
    /\ submissions = {}
    /\ assignments = {[id |-> "a1", course_id |-> "c1", max_grade |-> 5]}
    /\ courses = {[id |-> "c1", created_by |-> "l1"]}
    /\ nextId = 1
    /\ now = 1

\* The initial state: the store, and nothing asked yet.
Init ==
    /\ InitStore
    /\ req = [r \in Slots |-> Idle]
    /\ spage = [p \in Page |-> Closed]
    /\ lpage = LClosed
    /\ InitRoles
    /\ InitReaders

NextEnroll ==
    \E r \in Req :
        \/ EnrollCheck(r, Students)
        \/ EnrollInsert(r)
        \/ EnrollNotify(r, {TRUE})
        \/ UnenrollStudent(r)
        \/ UpdateEnrollmentStatus(r)

\* enrollment-service alone.
SpecEnroll == Init /\ [][NextEnroll]_vars

NextSubmit ==
    \/ \E r \in Req :
        \/ CreateCheck(r, Students, {"x"})
        \/ CreateInsert(r)
        \/ CreateNotify(r, {TRUE})
    \/ \E p \in Page :
        \/ SPageFetchData(p)
        \/ SPageHandleSubmit(p, {"x"})

\* Every path that inserts submissions: submission-service 'create' and the
\* student's page.
SpecSubmit == Init /\ [][NextSubmit]_vars

NextEdit ==
    \/ \E r \in Req :
        \/ UpdateSubmission(r)
        \/ GradeSubmission(r, {x.id : x \in submissions}, {3}, {"ok"}, {"l1"})
        \/ GradeNotify(r, {TRUE})
    \/ \E p \in Page :
        \/ SPageFetchData(p)
        \/ SPageHandleSubmit(p, Contents)

\* A student's page and 'update' against a lecturer grading.
SpecEdit == Init /\ [][NextEdit]_vars

\* A store in which two students have handed in the assignment.
InitGrade ==
    /\ enrollments = {}
    /\ submissions = {NewSubmission(1, "a1", "s1", "x"),
                      NewSubmission(2, "a1", "s2", "x")}
    /\ assignments = {[id |-> "a1", course_id |-> "c1", max_grade |-> 5]}
    /\ courses = {[id |-> "c1", created_by |-> "l1"]}
    /\ nextId = 3
    /\ now = 1
    /\ req = [r \in Slots |-> Idle]
    /\ spage = [p \in Page |-> Closed]
    /\ lpage = LClosed
    /\ InitRoles
    /\ InitReaders

NextGrade ==
    \/ \E r \in Req :
        \/ GradeSubmission(r, {1}, {-1, 6}, {"ok"}, {"l2"})
        \/ GradeNotify(r, {TRUE})
        \/ UpdateGrade(r, {1}, {7}, {"redo"})
        \/ UpdateAssignment(r, {[max_grade |-> 2]})
    \/ LPageFetch("a1")
    \/ LPageOpenGradingDialog
    \/ LPageType({<<"3">>, <<"6">>}, {"ok"})
    \/ LPageHandleGrade
    \/ LPageGradeWrite

\* Every path that writes a grade, and the assignment's max_grade changing.
SpecGrade == InitGrade /\ [][NextGrade]_vars

NextPage ==
    \/ \E r \in Req : UpdateAssignment(r, {[max_grade |-> 2]})
    \/ LPageFetch("a1")
    \/ LPageOpenGradingDialog
    \/ LPageType(GradeInputs, FeedbackInputs)
    \/ LPageHandleGrade
    \/ LPageGradeWrite

\* The lecturer's page, whatever is typed into its dialog, while the
\* assignment changes under it.
SpecPage == InitGrade /\ [][NextPage]_vars

NextGradeOnly ==
    \E r \in Req :
        \/ GradeSubmission(r, {1}, {3, 4}, {"ok", "redo"}, Lecturers)
        \/ GradeNotify(r, {TRUE})

\* Concurrent 'grade' requests alone.
SpecGradeOnly == InitGrade /\ [][NextGradeOnly]_vars

NextRace ==
    \E r \in RaceReq :
        \/ EnrollCheck(r, {"s1"})
        \/ EnrollInsert(r)
        \/ EnrollNotify(r, {TRUE})
        \/ CreateCheck(r, {"s1"}, {"x"})
        \/ CreateInsert(r)
        \/ CreateNotify(r, {TRUE})

\* The two handlers that check for a row before they insert it, each asked
\* again and again for one pair.
SpecRace == Init /\ [][NextRace]_vars

\* A store with a second course, in which one student is enrolled.
InitAssign ==
    /\ enrollments = {[id |-> 1, student_id |-> "s2", course_id |-> "c2",
                       status |-> "active"]}
    /\ submissions = {}
    /\ assignments = {[id |-> "a1", course_id |-> "c1", max_grade |-> 5]}
    /\ courses = {[id |-> "c1", created_by |-> "l1"],
                  [id |-> "c2", created_by |-> "l2"]}
    /\ nextId = 2
    /\ now = 1
    /\ req = [r \in Slots |-> Idle]
    /\ spage = [p \in Page |-> Closed]
    /\ lpage = LClosed
    /\ InitRoles
    /\ InitReaders

NextAssign ==
    \E r \in Req :
        \/ EnrollCheck(r, Students)
        \/ EnrollInsert(r)
        \/ EnrollNotify(r, {TRUE})
        \/ UpdateEnrollmentStatus(r)
        \/ CreateAssignment(r, {"c1"}, {0, 5})
        \/ AssignmentRead(r, BOOLEAN)
        \/ AssignmentNotify(r, {TRUE})

\* assignment-service 'create' among the requests that change enrollments.
SpecAssign == InitAssign /\ [][NextAssign]_vars

\* A store in which a student is enrolled and has handed in the assignment.
InitNotify ==
    /\ enrollments = {[id |-> 1, student_id |-> "s2", course_id |-> "c1",
                       status |-> "active"]}
    /\ submissions = {NewSubmission(2, "a1", "s2", "x")}
    /\ assignments = {[id |-> "a1", course_id |-> "c1", max_grade |-> 5]}
    /\ courses = {[id |-> "c1", created_by |-> "l1"]}
    /\ nextId = 3
    /\ now = 1
    /\ req = [r \in Slots |-> Idle]
    /\ spage = [p \in Page |-> Closed]
    /\ lpage = LClosed
    /\ InitRoles
    /\ InitReaders

NextNotify ==
    \E r \in Req :
        \/ CreateCourse(r, {[title |-> "T", created_by |-> "l1"]})
        \/ CourseNotify(r, BOOLEAN)
        \/ CreateAssignment(r, {"c1"}, {0})
        \/ AssignmentRead(r, {TRUE})
        \/ AssignmentNotify(r, BOOLEAN)
        \/ EnrollCheck(r, {"s1"})
        \/ EnrollInsert(r)
        \/ EnrollNotify(r, BOOLEAN)
        \/ CreateCheck(r, {"s1"}, {"x"})
        \/ CreateInsert(r)
        \/ CreateNotify(r, BOOLEAN)
        \/ GradeSubmission(r, {2}, {3}, {"ok"}, {"l1"})
        \/ GradeNotify(r, BOOLEAN)

\* The five handlers that notify, with invocations that may fail.
SpecNotify == InitNotify /\ [][NextNotify]_vars

NextRouter ==
    \E r \in Req :
        \/ RouteInvalid(r, Services, {"enroll", "create", "remove"})
        \/ EnrollCheck(r, {"s1"})
        \/ EnrollInsert(r)
        \/ EnrollNotify(r, {TRUE})
        \/ UpdateEnrollmentStatus(r)
        \/ CreateCheck(r, {"s1"}, {"x"})
        \/ CreateInsert(r)
        \/ CreateNotify(r, {TRUE})

\* Requests of every kind of response: accepted, turned down by a handler,
\* turned down by a router, failed.
SpecRouter == Init /\ [][NextRouter]_vars

NextRoles == InsertRole(Users, Users, Roles)

\* Inserts into user_roles by every caller.
SpecRoles == Init /\ [][NextRoles]_vars

NextDash ==
    \/ InsertRole({"u1"}, {"u1"}, {"student", "lecturer"})
    \/ DashCheckAuth({Null, Some("u1")})
    \/ DashRoleQuery(BOOLEAN)
    \/ DashSetRole
    \/ \E r \in Req :
        \/ EnrollCheck(r, {"s1"})
        \/ EnrollInsert(r)
        \/ EnrollNotify(r, {TRUE})

\* The Dashboard of a user who is signing up, and service requests.
SpecDash == Init /\ [][NextDash]_vars

\* Number of analytics requests one behaviour holds.
MaxAnalyticsReq == 1

AnalyticsReq == 1..MaxAnalyticsReq

NextErrors ==
    \E r \in AnalyticsReq :
        \/ EnrollCheck(r, {"s1"})
        \/ EnrollInsert(r)
        \/ EnrollNotify(r, {TRUE})
        \/ UpdateEnrollmentStatus(r)
        \/ GetSystemMetrics(r, BOOLEAN)
        \/ MetricsQuery(r, BOOLEAN)
        \/ GetCourseAnalytics(r, {"c1"}, BOOLEAN)
        \/ AnalyticsAssignments(r, BOOLEAN)
        \/ AnalyticsSubmissions(r, BOOLEAN)

\* Handlers whose data-store calls fail: a check before an insert, an update
\* read back, queries whose error is looked at and queries whose error is not.
SpecErrors == Init /\ [][NextErrors]_vars

\* Rows a store may hold when analytics are asked for: two courses, three
\* assignments, enrollments in both courses, submissions graded and not.
AnalyticsAssignmentRows ==
    {[id |-> "a1", course_id |-> "c1", max_grade |-> 100],
     [id |-> "a2", course_id |-> "c1", max_grade |-> 100],
     [id |-> "a3", course_id |-> "c2", max_grade |-> 100]}

AnalyticsEnrollmentRows ==
    {[id |-> 1, student_id |-> "s1", course_id |-> "c1", status |-> "active"],
     [id |-> 2, student_id |-> "s2", course_id |-> "c1", status |-> "dropped"],
     [id |-> 3, student_id |-> "s1", course_id |-> "c2", status |-> "active"],
     [id |-> 10, student_id |-> "s3", course_id |-> "c1", status |-> "active"]}

GradedRow(id, a, s, grade) ==
    [NewSubmission(id, a, s, "x") EXCEPT !.grade = Some(grade)]

AnalyticsSubmissionRows ==
    {GradedRow(4, "a1", "s1", 70), GradedRow(5, "a1", "s2", 80),
     GradedRow(6, "a2", "s1", 90), NewSubmission(7, "a2", "s2", "x"),
     GradedRow(8, "a3", "s1", 50), GradedRow(9, "a2", "s2", 85)}

InitAnalytics ==
    /\ enrollments \in SUBSET AnalyticsEnrollmentRows
    /\ assignments \in SUBSET AnalyticsAssignmentRows
    /\ submissions \in
        {rows \in SUBSET AnalyticsSubmissionRows :
            \A x \in rows : \E a \in assignments : a.id = x.assignment_id}
    /\ courses = {[id |-> "c1", created_by |-> "l1"],
                  [id |-> "c2", created_by |-> "l2"]}
    /\ nextId = 11
    /\ now = 1
    /\ req = [r \in Slots |-> Idle]
    /\ spage = [p \in Page |-> Closed]
    /\ lpage = LClosed
    /\ InitRoles
    /\ InitReaders

NextAnalytics ==
    \E r \in AnalyticsReq :
        \/ GetCourseAnalytics(r, {"c1", "c2"}, BOOLEAN)
        \/ AnalyticsAssignments(r, BOOLEAN)
        \/ AnalyticsSubmissions(r, BOOLEAN)

\* 'course-analytics' asked of every such store.
SpecAnalytics == InitAnalytics /\ [][NextAnalytics]_vars

----------------------------------------------------------------------------
\* Stores for the progress report: up to four assignments in course c1 and
\* one in c2, students enrolled actively or not, submissions with a
\* duplicate for (s1, a1).
ProgressAssignmentRows ==
    {[id |-> "a1", course_id |-> "c1", max_grade |-> 100],
     [id |-> "a2", course_id |-> "c1", max_grade |-> 100],
     [id |-> "a3", course_id |-> "c1", max_grade |-> 100],
     [id |-> "a4", course_id |-> "c1", max_grade |-> 100]}

ProgressEnrollmentRows ==
    {[id |-> 1, student_id |-> "s1", course_id |-> "c1", status |-> "active"],
     [id |-> 2, student_id |-> "s2", course_id |-> "c1", status |-> "active"],
     [id |-> 3, student_id |-> "s3", course_id |-> "c1", status |-> "dropped"]}

ProgressSubmissionRows ==
    {NewSubmission(5, "a1", "s1", "x"), NewSubmission(6, "a1", "s1", "y"),
     NewSubmission(7, "a2", "s1", "x"), NewSubmission(8, "a3", "s1", "x"),
     NewSubmission(9, "a1", "s2", "x"), NewSubmission(10, "a5", "s1", "x")}

InitProgress ==
    /\ enrollments \in SUBSET ProgressEnrollmentRows
    /\ assignments \in
        {rows \cup {[id |-> "a5", course_id |-> "c2", max_grade |-> 100]} :
            rows \in SUBSET ProgressAssignmentRows}
    /\ submissions \in
        {rows \in SUBSET ProgressSubmissionRows :
            \A x \in rows : \E a \in assignments : a.id = x.assignment_id}
    /\ courses = {[id |-> "c1", created_by |-> "l1"],
                  [id |-> "c2", created_by |-> "l2"]}
    /\ nextId = 11
    /\ now = 1
    /\ req = [r \in Slots |-> Idle]
    /\ spage = [p \in Page |-> Closed]
    /\ lpage = LClosed
    /\ InitRoles
    /\ InitReaders

NextProgress ==
    \/ ProgressFetch({"c1", "c3"},
                     {AuthReturned(Some("l1")), AuthError("bad_jwt")}, {"ok"},
                     BOOLEAN)
    \/ ProgressEnrollments(BOOLEAN)
    \/ ProgressProfiles(BOOLEAN)
    \/ ProgressAssignments(BOOLEAN)
    \/ ProgressSubmissions(BOOLEAN)

\* The progress report asked of every such store.
SpecProgress == InitProgress /\ [][NextProgress]_vars

NextMaxGrade ==
    \/ HandleCreateAssignment({"c1"}, MaxGradeInputs)
    \/ \E r \in AnalyticsReq :
        \/ CreateAssignment(r, {"c2"}, {-5, 0, 5})
        \/ AssignmentRead(r, {TRUE})
        \/ AssignmentNotify(r, {TRUE})
        \/ UpdateAssignment(r, {[max_grade |-> 0], [max_grade |-> 2]})

\* Every way an assignment is written: the service's 'create' and 'update'
\* and the page's insert.
SpecMaxGrade == InitAssign /\ [][NextMaxGrade]_vars

\* What a 'create' request of course-service may carry: every field, the
\* required ones alone, and a field the handler does not name.
CourseDatas ==
    {[title |-> "T", description |-> "D", lecturer_id |-> "l1",
      created_by |-> "l1"],
     [title |-> "U", created_by |-> "l2"],
     [title |-> "T", description |-> "D", lecturer_id |-> "l2",
      created_by |-> "l2", semester |-> "S1"]}

NextCourse ==
    \E r \in Req :
        \/ CreateCourse(r, CourseDatas)
        \/ CourseNotify(r, BOOLEAN)

\* Courses created through course-service.
SpecCourse == Init /\ [][NextCourse]_vars

NextSafe ==
    \/ SafeGetSession(AuthOutcomes, SignOutOutcomes)
    \/ ProgressFetch({"c1", "c3"}, AuthOutcomes, SignOutOutcomes, BOOLEAN)
    \/ ProgressEnrollments(BOOLEAN)

\* The auth helpers under every outcome of the auth call and of signOut:
\* safeGetSession called by itself, safeGetUser by the progress page.
SpecSafe == Init /\ [][NextSafe]_vars

NextCheckAuth ==
    \/ InsertRole({"u1", "adm"}, {"u1"}, {"lecturer", "admin"})
    \/ DashCheckAuth({Null, Some("u1")})
    \/ DashRoleQuery(BOOLEAN)
    \/ DashSetRole

\* Dashboard.checkAuth of a user whose role row may arrive meanwhile; the
\* page's code goes on running: a query that can be made is made, and the
\* role is set when the loop is left.
SpecCheckAuth ==
    /\ Init
    /\ [][NextCheckAuth]_vars
    /\ WF_vars(DashRoleQuery(BOOLEAN))
    /\ WF_vars(DashSetRole)

NextWriteFirst ==
    \E r \in Req :
        \/ CreateCourse(r, {[title |-> "T", created_by |-> "l1"]})
        \/ CourseNotify(r, {TRUE})
        \/ CreateAssignment(r, {"c1"}, {0})
        \/ AssignmentRead(r, BOOLEAN)
        \/ AssignmentNotify(r, {TRUE})
        \/ CreateFails(r, {"create-course", "create-assignment"})
        \/ EnrollCheck(r, {"s1"})
        \/ EnrollInsert(r)
        \/ EnrollNotify(r, {TRUE})
        \/ CreateCheck(r, {"s1"}, {"x"})
        \/ CreateInsert(r)
        \/ CreateNotify(r, {TRUE})
        \/ InsertFails(r)
        \/ GradeSubmission(r, {2, 9}, {3}, {"ok"}, {"l1"})
        \/ GradeNotify(r, {TRUE})

\* The five handlers that notify, with writes that may fail, rejected
\* duplicates and a 'grade' of a submission that is not there.
SpecWriteFirst == InitNotify /\ [][NextWriteFirst]_vars

NextRegrade ==
    \E r \in Req :
        \/ GradeSubmission(r, {1, 2}, {3}, {"ok"}, Lecturers)
        \/ GradeNotify(r, {TRUE})
        \/ UpdateGrade(r, {1, 2}, {4}, {"redo"})

\* 'grade' and 'update-grade' requests in any order, on submissions graded
\* or not.
SpecRegrade == InitGrade /\ [][NextRegrade]_vars

NextUpdate ==
    \E r \in Req :
        \/ UpdateSubmissionWith(r, AnyUpdatePayloads)
        \/ GradeSubmission(r, {1}, {3}, {"ok"}, {"l1"})
        \/ GradeNotify(r, {TRUE})

\* submission-service 'update' with any payload, beside 'grade'.
SpecUpdate == InitGrade /\ [][NextUpdate]_vars

NextRate ==
    \E r \in RaceReq :
        \/ EnrollCheck(r, {"s1"})
        \/ EnrollInsert(r)
        \/ EnrollNotify(r, {TRUE})
        \/ UnenrollStudent(r)
        \/ CreateAssignment(r, {"c1"}, {0})
        \/ AssignmentRead(r, {TRUE})
        \/ AssignmentNotify(r, {TRUE})
        \/ DeleteAssignment(r, {"a2"}, DeleteRules)
        \/ CreateCheck(r, {"s1"}, {"x"})
        \/ CreateInsert(r)
        \/ CreateNotify(r, {TRUE})
        \/ GradeSubmission(r, {2, 3}, {3}, {"ok"}, {"l1"})
        \/ GradeNotify(r, {TRUE})
        \/ GetCourseAnalytics(r, {"c1"}, {TRUE})
        \/ AnalyticsAssignments(r, {TRUE})
        \/ AnalyticsSubmissions(r, {TRUE})

\* A course whose enrollments, assignments and submissions change, and its
\* analytics.
SpecRate == InitNotify /\ [][NextRate]_vars

----------------------------------------------------------------------------
(* Claims about enrollment-service.                                        *)

\* The number of rows an existence query matched, as its result tells it.
RowsMatched(res) == IF res.data # Null THEN 1 ELSE res.error[1].rows

EnrollNotification(d) ==
    [user_id |-> d.student_id, type |-> "enrollment",
     title |-> "Enrollment Successful"]

\* C1: an 'enroll' whose existence query matched one or more rows of the
\* pair has returned 400, inserted no row and sent no notification.
C1_EnrollRejectsExistingPair ==
    \A r \in Slots :
        (/\ req[r].action = "enroll"
         /\ req[r].pc = "done"
         /\ RowsMatched(req[r].existing) >= 1)
        => (/\ req[r].status = 400
            /\ req[r].row = Null
            /\ req[r].sent = <<>>)

\* C3: at most one enrollment row per (student, course) pair.
C3_OneEnrollmentPerPair ==
    \A e1, e2 \in enrollments : SamePair(e1, e2) => e1 = e2

\* The step in which 'enroll' arrives as request r and runs its check.
IsEnrollCheck(r) == req[r].pc = "idle" /\ req'[r].action = "enroll"

\* The step in which request r, an 'enroll' past its check, goes on.
IsEnrollStep(r, pc) ==
    req[r].action = "enroll" /\ req[r].pc = pc /\ req'[r] # req[r]

\* What 'enroll' does once its check has let it pass: one new row of the
\* pair with status 'active', then one notification to the student and 200.
EnrollInsertsAndNotifies(r) ==
    /\ IsEnrollStep(r, "insert") =>
        /\ \E new \in enrollments' \ enrollments :
            /\ enrollments' = enrollments \cup {new}
            /\ SamePair(new, req[r].data)
            /\ new.status = "active"
            /\ \A e \in enrollments : e.id # new.id
            /\ req'[r].row = Some(new)
        /\ req'[r].pc = "notify"
    /\ IsEnrollStep(r, "notify") =>
        /\ req'[r].sent = <<EnrollNotification(req[r].data)>>
        /\ req'[r].status = 200
        /\ req'[r].pc = "done"
        /\ enrollments' = enrollments

----------------------------------------------------------------------------
(* Claims about submission-service and SubmissionPage.                     *)

\* C2: a 'create' whose existence query matched one or more rows of the
\* (student, assignment) pair has returned 400, inserted no row and sent no
\* notification.
C2_CreateRejectsExistingPair ==
    \A r \in Slots :
        (/\ req[r].action = "create"
         /\ req[r].pc = "done"
         /\ RowsMatched(req[r].existing) >= 1)
        => (/\ req[r].status = 400
            /\ req[r].error = "Assignment already submitted"
            /\ req[r].row = Null
            /\ req[r].sent = <<>>)

\* C4: at most one submission row per (student, assignment) pair.
C4_OneSubmissionPerPair ==
    \A x, y \in submissions : SameWork(x, y) => x = y

\* C7: no step changes the content of a submission whose grade is non-null
\* (content is written by the student's operations alone).
C7_GradedContentImmutable ==
    [][\A x \in submissions :
        x.grade # Null =>
            \E y \in submissions' : y.id = x.id /\ y.content = x.content]_vars

----------------------------------------------------------------------------
(* Claims about the check-then-insert handlers running concurrently.       *)

\* Requests r1 and r2 are two requests of one kind for one pair, both
\* answered, whose existence checks both matched no row: with no delete in
\* between, both checks ran before either insert.
BothCheckedBeforeInsert(r1, r2, action) ==
    /\ r1 # r2
    /\ req[r1].action = action /\ req[r2].action = action
    /\ req[r1].pc = "done" /\ req[r2].pc = "done"
    /\ IF action = "enroll"
       THEN SamePair(req[r1].data, req[r2].data)
       ELSE SameWork(req[r1].data, req[r2].data)
    /\ RowsMatched(req[r1].existing) = 0
    /\ RowsMatched(req[r2].existing) = 0

\* Both requests returned 200 and each left a row of its own in the table.
BothInserted(r1, r2, table) ==
    /\ req[r1].status = 200 /\ req[r2].status = 200
    /\ req[r1].row # Null /\ req[r2].row # Null
    /\ req[r1].row[1].id # req[r2].row[1].id
    /\ {req[r1].row[1], req[r2].row[1]} \subseteq table

\* C5: two 'enroll' requests for one pair whose existence checks both ran
\* before either insert both return 200 and leave two rows for the pair;
\* likewise two 'create' requests of submission-service.
C5_RacingRequestsBothInsert ==
    \A r1, r2 \in Slots :
        /\ BothCheckedBeforeInsert(r1, r2, "enroll") =>
            /\ BothInserted(r1, r2, enrollments)
            /\ Cardinality(PairRows(enrollments, req[r1].data)) >= 2
        /\ BothCheckedBeforeInsert(r1, r2, "create") =>
            /\ BothInserted(r1, r2, submissions)
            /\ Cardinality(WorkRows(submissions, req[r1].data)) >= 2

\* Both races have happened: two enrollments and two submissions of the pair.
C5_Witness ==
    /\ \E r1, r2 \in Slots :
        /\ BothCheckedBeforeInsert(r1, r2, "enroll")
        /\ Cardinality(PairRows(enrollments, req[r1].data)) = 2
    /\ \E r1, r2 \in Slots :
        /\ BothCheckedBeforeInsert(r1, r2, "create")
        /\ Cardinality(WorkRows(submissions, req[r1].data)) = 2

----------------------------------------------------------------------------
(* Claims about grading.                                                   *)

\* C8: every submission with a non-null grade has 0 <= grade <= max_grade
\* of its assignment.
C8_GradeWithinRange ==
    \A x \in submissions :
        x.grade # Null =>
            \A a \in assignments :
                a.id = x.assignment_id =>
                    0 <= x.grade[1] /\ x.grade[1] <= a.max_grade

\* The grade typed into the dialog does not parse to an integer, or parses
\* to one below 0 or above the max_grade of the assignment the page loaded.
TypedGradeInvalid ==
    LET n == ParseInt(lpage.grade)
    IN  \/ n = Null
        \/ n[1] < 0
        \/ n[1] > lpage.assignment[1].max_grade

\* C9: handleGrade called with such a grade writes nothing to submissions
\* and leaves 'submitting' false.
C9_InvalidGradeWritesNothing ==
    [][(LPageHandleGrade /\ TypedGradeInvalid) =>
        /\ submissions' = submissions
        /\ lpage.submitting = FALSE
        /\ lpage'.submitting = FALSE
        /\ lpage'.pc = "list"]_vars

\* handleGrade has turned down a grade that is typed in the dialog: one
\* above the loaded max_grade, which the assignment's own max_grade, changed
\* since, is still below.
C9_Witness ==
    /\ lpage.toast = "Invalid Grade"
    /\ lpage.gradingSubmission # Null
    /\ ParseInt(lpage.grade) # Null
    /\ ParseInt(lpage.grade)[1] > lpage.assignment[1].max_grade
    /\ \E a \in assignments :
        /\ a.id = lpage.assignment[1].id
        /\ a.max_grade < lpage.assignment[1].max_grade

\* The four grading fields of submission x are those of 'grade' request r.
GradedBy(x, r) ==
    /\ req[r].action = "grade"
    /\ req[r].data.submission_id = x.id
    /\ x.grade = Some(req[r].data.grade)
    /\ x.feedback = Some(req[r].data.feedback)
    /\ x.graded_by = Some(req[r].data.graded_by)
    /\ x.graded_at = Some(req[r].data.at)

Ungraded(x) ==
    /\ x.grade = Null
    /\ x.feedback = Null
    /\ x.graded_by = Null
    /\ x.graded_at = Null

\* A step that changes the store is the one step of one 'grade' request, the
\* step in which it arrives: it changes one submission, whose four grading
\* fields are then that request's, and nothing else of it.
StoreChangesInOneGradeStep ==
    submissions' # submissions =>
        \E r \in Slots, x \in submissions :
            /\ req[r].pc = "idle" /\ req'[r].action = "grade"
            /\ \A q \in Slots \ {r} : req'[q] = req[q]
            /\ submissions' =
                (submissions \ {x}) \cup
                    {[x EXCEPT !.grade = Some(req'[r].data.grade),
                               !.feedback = Some(req'[r].data.feedback),
                               !.graded_by = Some(req'[r].data.graded_by),
                               !.graded_at = Some(req'[r].data.at)]}

\* C10: 'grade' changes the store in one atomic step that sets the four
\* grading fields together, and under concurrent 'grade' requests the four
\* fields of every submission are all at their initial values or all those
\* of one request.
C10_GradeFieldsFromOneRequest ==
    /\ [](\A x \in submissions : Ungraded(x) \/ \E r \in Slots : GradedBy(x, r))
    /\ [][StoreChangesInOneGradeStep]_vars

\* A submission graded twice, by different lecturers with different grades
\* and feedback, holds the fields of the later request.
C10_Witness ==
    \E x \in submissions, r1, r2 \in Slots :
        /\ GradedBy(x, r2)
        /\ req[r1].action = "grade"
        /\ req[r1].pc = "done" /\ req[r1].status = 200
        /\ req[r1].data.submission_id = x.id
        /\ req[r1].data.grade # req[r2].data.grade
        /\ req[r1].data.feedback # req[r2].data.feedback
        /\ req[r1].data.graded_by # req[r2].data.graded_by
        /\ req[r1].data.at < req[r2].data.at

----------------------------------------------------------------------------
(* Claims about notifications.                                             *)

\* The actions of the five handlers that notify.
Notifying == {"create-course", "create-assignment", "enroll", "create", "grade"}

\* The row request r wrote is in the table it was written to.
WrittenRowPresent(r) ==
    /\ req[r].row # Null
    /\ req[r].row[1] \in
        (CASE req[r].action = "create-course" -> courses
           [] req[r].action = "create-assignment" -> assignments
           [] req[r].action = "enroll" -> enrollments
           [] req[r].action \in {"create", "grade"} -> submissions)

\* C11: a request of a notifying handler whose write succeeded and of whose
\* send-notification calls one failed has returned 200 with success, and the
\* step in which the call failed changed no table (nothing is rolled back).
C11_LostNotificationStillSucceeds ==
    /\ [](\A r \in Slots :
            (req[r].action \in Notifying /\ req[r].lost # <<>>
                /\ req[r].pc = "done")
            => (req[r].status = 200 /\ req[r].error = "" /\ req[r].row # Null))
    /\ [][\A r \in Slots :
            req'[r].lost # req[r].lost =>
                /\ UNCHANGED <<enrollments, submissions, assignments, courses>>
                /\ req'[r].row = req[r].row
                /\ req'[r].pc \in {"notify", "done"}]_vars

\* A course, an assignment and an enrollment were written, the notification
\* of each was lost, each request returned 200 and each row is in its table.
C11_Witness ==
    \A a \in {"create-course", "create-assignment", "enroll"} :
        \E r \in Slots :
            /\ req[r].action = a
            /\ req[r].pc = "done" /\ req[r].status = 200
            /\ req[r].lost # <<>>
            /\ WrittenRowPresent(r)

\* How many 'New Assignment' notifications request r issued to student s.
NotifiedTimes(r, s) ==
    Cardinality({i \in 1..Len(req[r].sent) :
                    /\ req[r].sent[i].user_id = s
                    /\ req[r].sent[i].title = "New Assignment"})

\* The students of the enrollment rows request r read.
StudentsRead(r) ==
    {req[r].read[1].data[1][i].student_id :
        i \in 1..Len(req[r].read[1].data[1])}

\* C12: a successful assignment 'create' has issued one 'New Assignment'
\* notification to each student with an active enrollment in the course
\* when the enrollments were read, and none to any other student.
C12_OneNotificationPerActiveStudent ==
    /\ [][\A r \in Slots :
            (req[r].action = "create-assignment" /\ req[r].pc = "read"
                /\ req'[r].read # req[r].read /\ req'[r].read[1].data # Null)
            => {req'[r].read[1].data[1][i] :
                    i \in 1..Len(req'[r].read[1].data[1])}
               = {e \in enrollments :
                    /\ e.course_id = req[r].data.course_id
                    /\ e.status = "active"}]_vars
    /\ [](\A r \in Slots :
            (req[r].action = "create-assignment" /\ req[r].pc = "done"
                /\ req[r].status = 200 /\ req[r].read[1].data # Null)
            => \A s \in Students :
                NotifiedTimes(r, s) = IF s \in StudentsRead(r) THEN 1 ELSE 0)

----------------------------------------------------------------------------
(* Claims about the routers.                                               *)

\* Request r arrives in this step at the router of a service with an action
\* that is none of the service's.
ArrivesWithUnknownAction(r) ==
    /\ req[r].pc = "idle" /\ req'[r].pc # "idle"
    /\ req'[r].data # Null
    /\ "service" \in DOMAIN req'[r].data
    /\ req'[r].data.action \notin
        (CASE req'[r].data.service \in {"course-service", "assignment-service"}
                -> {"create", "update", "delete", "list", "get"}
           [] req'[r].data.service = "enrollment-service"
                -> {"enroll", "unenroll", "list", "update-status"}
           [] req'[r].data.service = "grading-service"
                -> {"grade", "update-grade", "get-statistics"}
           [] req'[r].data.service = "submission-service"
                -> {"create", "update", "list", "get"}
           [] req'[r].data.service = "analytics-service"
                -> {"course-analytics", "student-performance",
                    "system-metrics"})

\* C13: a POST whose action is not of the service's action set is answered
\* 400 'Invalid action' in one step that reads nothing, writes nothing and
\* notifies nobody.
C13_UnknownActionRejected ==
    [][\A r \in Slots :
        ArrivesWithUnknownAction(r) =>
            /\ req'[r].pc = "done"
            /\ req'[r].status = 400
            /\ req'[r].error = "Invalid action"
            /\ req'[r].existing = Null /\ req'[r].read = <<>>
            /\ req'[r].row = Null
            /\ req'[r].sent = <<>>
            /\ UNCHANGED <<enrollments, submissions, assignments, courses,
                           user_roles, nextId>>]_vars

\* Two routers have each turned down an action of another service, with
\* rows in the store.
C13_Witness ==
    /\ enrollments # {}
    /\ \E r1, r2 \in Slots :
        /\ req[r1].action = "invalid" /\ req[r2].action = "invalid"
        /\ req[r1].status = 400 /\ req[r2].status = 400
        /\ req[r1].data = [service |-> "course-service", action |-> "enroll"]
        /\ req[r2].data = [service |-> "grading-service", action |-> "create"]

----------------------------------------------------------------------------
(* Claims about errors and responses.                                      *)

\* The messages of the errors that the data-store calls of request r
\* returned: that of its existence check and those of its other reads.  An
\* existence check that matched no row is not counted, though .single()
\* reports it as an error too.
StoreErrors(r) ==
    (IF /\ req[r].action \in {"enroll", "create"}
        /\ req[r].existing.error # Null
        /\ req[r].existing.error[1].rows # 0
     THEN {req[r].existing.error[1].code} ELSE {})
    \cup {req[r].read[i].error[1] :
            i \in {j \in 1..Len(req[r].read) : req[r].read[j].error # Null}}

\* C14: a request one of whose data-store calls returned an error has ended
\* with a 500 response carrying that error's message.
C14_StoreErrorGives500 ==
    \A r \in Slots :
        (req[r].pc = "done" /\ StoreErrors(r) # {})
        => (req[r].status = 500 /\ req[r].error \in StoreErrors(r))

\* The three shapes of a response: success, 'Invalid action', a thrown
\* error's message.
ThreeShapes(q) ==
    \/ q.status = 200 /\ q.error = ""
    \/ q.status = 400 /\ q.error = "Invalid action"
    \/ q.status = 500 /\ q.error # ""

\* C15 as stated: every response is of one of the three shapes.
C15_ThreeResponseShapes ==
    \A r \in Slots : req[r].pc = "done" => ThreeShapes(req[r])

\* C15 amended: every response is of one of the three shapes, or is the 400
\* with which 'enroll' and submission 'create' turn down a pair they found.
C15_ResponseShapesWithRejections ==
    \A r \in Slots :
        req[r].pc = "done" =>
            \/ ThreeShapes(req[r])
            \/ /\ req[r].action = "enroll"
               /\ req[r].status = 400
               /\ req[r].error = "Student already enrolled in this course"
            \/ /\ req[r].action = "create"
               /\ req[r].status = 400
               /\ req[r].error = "Assignment already submitted"

\* A response of each 400 kind: of a router and of a handler; and a 500.
C15_Witness ==
    \E r1, r2, r3 \in Slots :
        /\ req[r1].pc = "done" /\ req[r1].status = 400
        /\ req[r1].error = "Invalid action"
        /\ req[r2].pc = "done" /\ req[r2].status = 400
        /\ req[r2].error = "Student already enrolled in this course"
        /\ req[r3].pc = "done" /\ req[r3].status = 200

----------------------------------------------------------------------------
(* Claims about user_roles.                                                *)

\* The insert asked for in this step: who asked, and the row.
RoleInsertAsked ==
    roleInsert' # roleInsert \/ user_roles' # user_roles

\* C16: an insert of (user_id, role) by caller u is permitted exactly when
\* u = user_id and the role is 'student' or 'lecturer', or u holds the
\* 'admin' role; so a caller who is no admin creates no 'admin' row and no
\* row of another user.
C16_InsertPermittedExactlyWhen ==
    [][RoleInsertAsked =>
        LET u == roleInsert'.caller
            row == roleInsert'.row[1]
            admin == \E x \in user_roles : x.user_id = u /\ x.role = "admin"
            permitted == \/ u = row.user_id /\ row.role \in {"student", "lecturer"}
                         \/ admin
        IN  /\ roleInsert'.permitted = permitted
            /\ user_roles' = IF permitted THEN user_roles \cup {row}
                             ELSE user_roles
            /\ ~admin =>
                \A x \in user_roles' \ user_roles :
                    x.user_id = u /\ x.role # "admin"]_vars

\* A user who is no admin has a role row, and was refused the 'admin' role
\* they asked for themselves; the admin has given another user a role.
C16_Witness ==
    /\ roleInsert.row # Null
    /\ roleInsert.permitted = FALSE
    /\ roleInsert.caller = roleInsert.row[1].user_id
    /\ roleInsert.row[1].role = "admin"
    /\ \E x \in user_roles : x.user_id = roleInsert.caller
    /\ \E x \in user_roles : x.user_id # "adm" /\ x.role = "admin"

\* C17: each user has at most one role row.
C17_OneRolePerUser ==
    \A x, y \in user_roles : x.user_id = y.user_id => x = y


----------------------------------------------------------------------------
(* Claims about retries.                                                   *)

\* How far a request has come: arrival, the calls in their order, the
\* Response.
Position(pc) ==
    CASE pc = "idle" -> 0
      [] pc = "insert" -> 1
      [] pc = "notify" -> 2
      [] pc = "done" -> 3
      [] OTHER -> 1

\* A step of a request takes it on to a later position: the call made at a
\* position is not made a second time.
RequestsMoveOn ==
    \A r \in Slots :
        req'[r] # req[r] => Position(req'[r].pc) > Position(req[r].pc)

\* The Dashboard issues its role query in this step.
RoleQueryIssued == dash'.queries > dash.queries

\* Every operation is attempt-once: no call of a request is issued a second
\* time, and the Dashboard's role query is issued once for one checkAuth.
\* The Dashboard does not do this.
C18_AttemptOnce ==
    [][/\ RequestsMoveOn
       /\ RoleQueryIssued => dash.queries = 0]_vars

\* C18: every service operation is attempt-once, each of its data-store
\* calls issued at most once for one request; the one retry is in
\* Dashboard.checkAuth, which issues its role query again while no role row
\* has come back, up to three times in all, and never after a row was
\* found.
C18_AttemptOnceButRoleQuery ==
    /\ [](/\ dash.queries <= DashRetries
          /\ dash.pc = "ready" =>
                /\ dash.queries >= 1
                /\ dash.roles = Null => dash.queries = DashRetries)
    /\ [][/\ RequestsMoveOn
          /\ RoleQueryIssued =>
                /\ dash.roles = Null
                /\ dash'.queries = dash.queries + 1]_vars

\* checkAuth has asked for the role three times and found none, and a
\* request was served.
C18_Witness ==
    /\ dash.pc = "ready"
    /\ dash.queries = DashRetries
    /\ dash.roles = Null
    /\ dash.toast = "Notice"
    /\ \E r \in Slots : req[r].pc = "done" /\ req[r].status = 200


----------------------------------------------------------------------------
(* Claims about course analytics.                                          *)

\* 'course-analytics' was answered with its analytics object.
AnalyticsServed(r) ==
    /\ req[r].action = "course-analytics"
    /\ req[r].pc = "done"
    /\ req[r].status = 200

\* r is n / d rounded to the nearest integer, a half going up (d > 0).
IsRounded(r, n, d) == 2 * d * r - d <= 2 * n /\ 2 * n < 2 * d * r + d

\* The rows of the store that belong to course c.
AssignmentsOf(c) == {a \in assignments : a.course_id = c}
EnrollmentsOf(c) == {e \in enrollments : e.course_id = c}
GradedOf(c) ==
    {x \in submissions :
        /\ x.grade # Null
        /\ \E a \in AssignmentsOf(c) : a.id = x.assignment_id}

\* C19: completion_rate is 0 for a course without assignments, and
\* otherwise round(100 * G / (E' * A)): G the course's graded submissions,
\* A its assignments, E' its enrollment rows, taken as 1 when there are
\* none.
C19_CompletionRate ==
    \A r \in Slots :
        AnalyticsServed(r) =>
            LET c == req[r].data.course_id
                A == Cardinality(AssignmentsOf(c))
                E == Cardinality(EnrollmentsOf(c))
                E1 == IF E = 0 THEN 1 ELSE E
                G == Cardinality(GradedOf(c))
                rate == req[r].row[1].completion_rate
            IN  IF A = 0 THEN rate = 0
                ELSE IsRounded(rate, 100 * G, E1 * A)

\* Analytics of a course with assignments and graded submissions but no
\* enrollment row: the rate is that of one enrollment.
C19_Witness ==
    \E r \in Slots :
        /\ AnalyticsServed(r)
        /\ req[r].data.course_id = "c1"
        /\ EnrollmentsOf("c1") = {}
        /\ Cardinality(AssignmentsOf("c1")) = 2
        /\ Cardinality(GradedOf("c1")) = 3
        /\ req[r].row[1].completion_rate = 150

\* C20: average_grade (held in hundredths) is the mean, rounded to two
\* decimals, of the grades of the course's graded submissions, and 0 when
\* the course has none; ungraded submissions and those of other courses have
\* no part in it.
C20_AverageGrade ==
    \A r \in Slots :
        AnalyticsServed(r) =>
            LET graded == GradedOf(req[r].data.course_id)
                n == Cardinality(graded)
                average == req[r].row[1].average_grade
            IN  IF n = 0 THEN average = 0
                ELSE IsRounded(average, 100 * SumGrades(graded), n)

\* Grades 70, 80 and 90 in course c1, beside an ungraded submission and a
\* graded one of another course, give 80.
C20_Witness ==
    \E r \in Slots :
        /\ AnalyticsServed(r)
        /\ req[r].data.course_id = "c1"
        /\ {x.grade[1] : x \in GradedOf("c1")} = {70, 80, 90}
        /\ Cardinality(GradedOf("c1")) = 3
        /\ \E x \in submissions : x.grade = Null
        /\ \E x \in GradedOf("c2") : x.grade[1] = 50
        /\ req[r].row[1].average_grade = 8000


----------------------------------------------------------------------------
(* Claims about the student progress report.                               *)

\* The report of the page is on show (no error toast instead of it).
ReportShown == ppage.pc = "shown" /\ ppage.toast = ""

\* The assignments of course c for which student s has a submission row.
SubmittedOf(s, c) ==
    {a \in AssignmentsOf(c) :
        \E x \in submissions : x.student_id = s /\ x.assignment_id = a.id}

\* C21: in the progress report every actively enrolled student of the
\* course has submissionRate round(100 * S / A), A the course's assignments
\* and S those of them the student has a submission row for, and 0 when
\* A = 0; so the rate is within 0..100, duplicate rows or not.
C21_SubmissionRate ==
    ReportShown =>
        LET c == ppage.courseId
            A == Cardinality(AssignmentsOf(c))
        IN  /\ \A e \in ActiveEnrollments(enrollments, c) :
                \E i \in 1..Len(ppage.progress) :
                    ppage.progress[i].student_id = e.student_id
            /\ \A i \in 1..Len(ppage.progress) :
                LET entry == ppage.progress[i]
                    S == Cardinality(SubmittedOf(entry.student_id, c))
                IN  /\ entry.submissionRate \in 0..100
                    /\ IF A = 0 THEN entry.submissionRate = 0
                       ELSE IsRounded(entry.submissionRate, 100 * S, A)


----------------------------------------------------------------------------
(* Claims about system metrics.                                            *)

\* Request r makes its next query of getSystemMetrics in this step.
MetricQueried(r) ==
    /\ req'[r].action = "system-metrics"
    /\ Len(req'[r].read) = Len(req[r].read) + 1

\* C22: 'system-metrics' always returns 200 with six counts, each the number
\* of matching rows in the store at the time of its query (so 0, not null
\* and not an error, for an empty table).
C22_MetricsCountRows ==
    /\ [](\A r \in Slots :
            (req[r].action = "system-metrics" /\ req[r].pc = "done") =>
                /\ req[r].status = 200
                /\ req[r].row[1] =
                    [i \in 1..Len(MetricNames) |->
                        LengthOrZero(req[r].read[i])])
    /\ [][\A r \in Slots :
            MetricQueried(r) =>
                LET i == Len(req'[r].read)
                IN  LengthOrZero(req'[r].read[i]) =
                        Cardinality(MetricRows(MetricNames[i]))]_vars


----------------------------------------------------------------------------
(* Claims about assignments.                                               *)

\* C23: whatever assignments are written, by assignment-service 'create' and
\* 'update' and by the insert of AssignmentsPage, the max_grade of every
\* assignment is a positive number.
C23_MaxGradePositive ==
    \A a \in assignments : a.max_grade > 0


----------------------------------------------------------------------------
(* Claims about courses.                                                   *)

\* 'create' of course-service was answered with the course.
CourseServed(r) ==
    /\ req[r].action = "create-course"
    /\ req[r].pc = "done"
    /\ req[r].status = 200

\* The course of the response is in the store, with an identifier and a
\* time of creation given by the server.
CourseStored(r) ==
    LET course == req[r].row[1]
    IN  /\ course \in courses
        /\ {"id", "created_at"} \subseteq DOMAIN course
        /\ course.id \in NewCourseIds

----------------------------------------------------------------------------
(* Claims about the auth helpers.                                          *)

\* The auth call of the helper returned an error with the code of a stale
\* refresh token.
StaleRefreshToken ==
    safe.call.kind = "error" /\ safe.call.code = "refresh_token_not_found"

\* C25: safeGetSession and safeGetUser never throw: whatever the auth call
\* does (success, an error returned, an exception) and whatever signOut
\* does, they return a result; its session or user is there only when its
\* error is null; and signOut is called exactly when the auth call returned
\* an error with code 'refresh_token_not_found'.
C25_SafeHelpersNeverThrow ==
    safe.fn # "none" =>
        /\ safe.result.thrown = Null
        /\ safe.result.value # Null => safe.result.error = Null
        /\ safe.result.signOuts = IF StaleRefreshToken THEN 1 ELSE 0
        /\ safe.call.kind = "data" =>
            /\ safe.result.value = safe.call.value
            /\ safe.result.error = Null
        /\ safe.call.kind # "data" => safe.result.error # Null

\* safeGetUser met a stale refresh token and signOut threw: the progress
\* page still got a result, without a user, and left for /auth.
C25_Witness ==
    /\ safe.fn = "safeGetUser"
    /\ StaleRefreshToken
    /\ safe.signOut = "throw"
    /\ safe.result.signOuts = 1
    /\ safe.result.value = Null
    /\ safe.result.error = Some("signOut failed")
    /\ ppage.pc = "auth"


----------------------------------------------------------------------------
(* Claims about Dashboard.checkAuth.                                       *)

\* checkAuth has a session and is in or past its loop.
DashHasSession == dash.pc \in {"loop", "ready"}

\* What checkAuth has done so far is within its limits: at most three
\* queries, a wait only after a query that gave no role and was not the
\* third, and no query after a role was found.
DashWithinLimits ==
    /\ dash.queries <= 3
    /\ dash.queries = 3 - dash.retries
    /\ dash.waits <= 2
    /\ dash.waits = IF dash.roles = Null
                    THEN (IF dash.queries = 3 THEN 2 ELSE dash.queries)
                    ELSE dash.queries - 1

\* checkAuth is done: not loading, and the role is the one found, or
\* 'student' (with the notice) exactly when all three queries gave none.
DashDone ==
    /\ dash.pc = "ready"
    /\ dash.loading = FALSE
    /\ dash.queries >= 1
    /\ IF dash.roles # Null
       THEN dash.userRole = dash.roles[1] /\ dash.toast = ""
       ELSE /\ dash.queries = 3
            /\ dash.userRole = "student"
            /\ dash.toast = "Notice"

\* C26: Dashboard.checkAuth with a session always terminates with loading
\* false; its loop makes at most 3 queries, none after the first that gives
\* a role, waits only between queries (at most twice, not after the last),
\* and sets userRole to the role found, or to 'student' exactly when all 3
\* queries gave no role.
C26_CheckAuthTerminates ==
    /\ [](DashHasSession => DashWithinLimits)
    /\ [](dash.pc = "ready" => DashDone)
    /\ [][dash'.queries > dash.queries => dash.roles = Null]_vars
    /\ (dash.pc = "loop") ~> DashDone

\* checkAuth found the role at its second query, after one wait: the row
\* had come in meanwhile.
C26_Witness ==
    /\ dash.pc = "ready"
    /\ dash.queries = 2
    /\ dash.waits = 1
    /\ dash.userRole = "lecturer"
    /\ \E x \in user_roles : x.user_id = "u1"


----------------------------------------------------------------------------
(* Claims about the order of write and notification.                       *)

\* Request r issues a send-notification call in this step.
NotificationIssued(r) == Len(req'[r].sent) > Len(req[r].sent)

\* C27: in every notifying handler a send-notification call is issued only
\* after the request's own insert or update has returned its row; a request
\* rejected as a duplicate, or whose write returned an error, issues none.
C27_NotifyOnlyAfterWrite ==
    /\ [](\A r \in Slots :
            (req[r].action \in Notifying /\ req[r].sent # <<>>) =>
                /\ req[r].row # Null
                /\ req[r].status \in {0, 200})
    /\ [][\A r \in Slots :
            NotificationIssued(r) =>
                /\ req[r].action \in Notifying
                /\ req[r].pc = "notify"
                /\ req[r].row # Null
                /\ req[r].status = 0]_vars

\* A duplicate was rejected, an insert failed and a 'grade' found no
\* submission, none of them notifying; an enrollment was written and then
\* notified.
C27_Witness ==
    \E r1, r2, r3 \in Slots :
        /\ req[r1].pc = "done" /\ req[r1].status = 400 /\ req[r1].sent = <<>>
        /\ req[r2].pc = "done" /\ req[r2].status = 500 /\ req[r2].sent = <<>>
        /\ req[r2].action \in {"enroll", "create", "grade"}
        /\ req[r3].pc = "done" /\ req[r3].status = 200
        /\ req[r3].sent # <<>> /\ WrittenRowPresent(r3)


----------------------------------------------------------------------------
(* Claims about who graded.                                                *)

\* C28: after any 'grade' and 'update-grade' requests (every 'grade' with a
\* graded_by), a submission with a grade has a graded_at and a graded_by: a
\* graded submission records who graded it.
C28_GradedRecordsGrader ==
    \A x \in submissions :
        x.grade # Null => (x.graded_at # Null /\ x.graded_by # Null)


----------------------------------------------------------------------------
(* Claims about what 'update' of submission-service leaves alone.          *)

\* Request r is a submission-service 'update' arriving in this step.
UpdateArrives(r) == req[r].pc = "idle" /\ req'[r].action = "update"

\* C30: 'update' of submission-service leaves grade, feedback, graded_by and
\* graded_at of its submission, and its student_id and assignment_id, as
\* they were, whatever the payload; a grade changes through the grading
\* operations alone.
C30_UpdateKeepsGradingFields ==
    [][\A r \in Slots :
        UpdateArrives(r) =>
            \A x \in submissions :
                \E y \in submissions' :
                    /\ y.id = x.id
                    /\ y.grade = x.grade
                    /\ y.feedback = x.feedback
                    /\ y.graded_by = x.graded_by
                    /\ y.graded_at = x.graded_at
                    /\ y.student_id = x.student_id
                    /\ y.assignment_id = x.assignment_id]_vars


----------------------------------------------------------------------------
(* Claims about the range of the completion rate.                          *)

\* C29: whatever enroll, unenroll, assignment create and delete, submission
\* create and grade operations came before, the completion_rate that
\* 'course-analytics' returns is between 0 and 100.
C29_CompletionRateWithinRange ==
    \A r \in Slots :
        AnalyticsServed(r) => req[r].row[1].completion_rate \in 0..100

====
